---------------------------- MODULE Spec2Model ----------------------------
(***************************************************************************)
(* A model of the core of Alkaline.js: the RangeSet (RangeSet.ts), the     *)
(* Myers array diff and ArrayDiff (Diffing.ts) and the change tracking of  *)
(* the reactive array (Reactive.ts).                                       *)
(*                                                                         *)
(* JavaScript arrays are modelled as TLA+ sequences; the code's 0-based    *)
(* index i is position i + 1 of the sequence.  An array hole reads as      *)
(* undefined and is modelled by the value Undefined.                       *)
(***************************************************************************)
EXTENDS Integers, Sequences, FiniteSets, TLC

VARIABLES
    \* ---- RangeSet.ts: two RangeSet objects and the last combinator result
    x, y,            \* [bounds |-> <<s1, e1, s2, e2, ...>>, count |-> n]
    result,          \* the RangeSet returned by the last combinator call
    xs, ys,          \* the sets of integers x and y stand for (history)
    rop,             \* the last RangeSet call: its name, or [op, on, copied] where
                     \* the calls are made on either object
    heap,            \* the bounds arrays of the objects, by address
    at,              \* the address of the bounds array of x, y and result; 0 for none
    \* ---- Diffing.ts: one arrayDiff call and its use
    from, to,        \* the two arrays
    equal,           \* the injected equality predicate (its name)
    diff,            \* the ArrayDiff returned: [removals, insertions]
    applied,         \* diff.apply(from)
    unapplied,       \* diff.inverse.apply(to)
    dstep,           \* how far the call sequence has come
    \* ---- Reactive.ts: one reactive array, its core and its callers
    _host,           \* the elements of the array
    _equal,          \* the injected equality predicate (its name)
    _mutationBalance,
    _onlyChange,     \* <<>> for null, <<d>> for the pending ArrayDiff d
    _original,       \* <<>> for null, <<a>> for the saved array a
    stack,           \* the proxy-wrapped method calls whose bodies are running
    failing,         \* an error is propagating through the body on top of the stack
    posted,          \* the diffs posted since the outermost session began (history)
    before,          \* the elements when the outermost session began (history)
    nops,            \* elementary mutations in the outermost session: 0, 1, or 2 for
                     \* two or more (history)
    session,         \* "none", "open", "ended" or "thrown": the outermost session;
                     \* a record with the history of the cancellations in SpecCancel
    last,            \* the outermost call made on the array, with its arguments (history)
    returned,        \* what the outermost call returned (history)
    \* ---- async.ts: one AsyncBarrier and the works submitted to it
    _currentWorks,   \* -1 for one exclusive work, else the number of concurrent works
    _workPool,       \* the delayed works, by their number, first in first out
    works,           \* the works in the order they were submitted
    started,         \* the works in the order their bodies were called (history)
    ticks,           \* the nextTick callbacks (_dispatchPoolWorks) not yet run
    loop,            \* <<>>, or <<c>> inside the do-while of _dispatchPoolWorks after
                     \* a work with concurrent = c was executed
    \* ---- RefCounted.ts: one RefCounted object and its callers
    ref,             \* [value, count, releasing]; value <<>> for undefined
    finalized,       \* how many times the finalizer passed to the constructor ran
    retains,         \* the calls of retain that returned (history)
    releases,        \* the calls of release that did not throw at once (history)
    rcall            \* the last call on the object and whether it threw

rangeVars == <<x, y, result, xs, ys, rop, heap, at>>
diffVars  == <<from, to, equal, diff, applied, unapplied, dstep>>
coreVars  == <<_host, _equal, _mutationBalance, _onlyChange, _original>>
reactVars == <<coreVars, stack, failing, posted, before, nops, session, last, returned>>
asyncVars == <<_currentWorks, _workPool, works, started, ticks, loop>>
refVars   == <<ref, finalized, retains, releases, rcall>>
otherVars == <<asyncVars, refVars>>
vars      == <<rangeVars, diffVars, reactVars, otherVars>>

----------------------------------------------------------------------------
(* Bounds of the model. *)

\* The members of the mutated RangeSet x lie in 0 .. MaxIndex.
MaxIndex == 7
\* The members of the RangeSet passed as `other` lie in 0 .. MaxOther.
MaxOther == 4
\* Arrays handed to arrayDiff have at most MaxLen elements.
MaxLen == 3

\* The elements stored in arrays.
Elements == 0 .. 2

\* A reactive array has at most MaxHostLen elements.
MaxHostLen == 2
\* At most MaxDepth proxy-wrapped method calls are nested.
MaxDepth == 2

----------------------------------------------------------------------------
(* Array helpers (ECMAScript built-ins). *)

\* Array.prototype.splice with a resolved start: the array after the call.
SpliceSeq(s, start, deleteCount, items) ==
    SubSeq(s, 1, start) \o items \o SubSeq(s, start + deleteCount + 1, Len(s))

Min(a, b) == IF a < b THEN a ELSE b
Max(a, b) == IF a > b THEN a ELSE b

\* The value read from an array hole, or past the end of an array.
Undefined == -1

\* array[index]
ElementAt(array, index) ==
    IF index + 1 \in DOMAIN array THEN array[index + 1] ELSE Undefined

----------------------------------------------------------------------------
(* RangeSet.ts *)

\* new RangeSet(): the empty set.
EmptyRangeSet == [bounds |-> <<>>, count |-> 0]

\* new RangeSet(start, end)
NewRangeSet(start, end) ==
    IF ~(start < end) THEN EmptyRangeSet
    ELSE [bounds |-> <<start, end>>, count |-> end - start]

\* m = (l + r) >>> 2 << 1
Mid(l, r) == ((l + r) \div 4) * 2

\* RangeSet.contains: the binary search over the ranges.
RECURSIVE ContainsSearch(_, _, _, _, _)
ContainsSearch(b, start, end, l, r) ==
    IF l < r
    THEN LET m  == Mid(l, r)
             lo == b[m + 1]
             hi == b[m + 2]
         IN  IF end <= lo THEN ContainsSearch(b, start, end, l, m)
             ELSE IF start >= hi THEN ContainsSearch(b, start, end, m + 2, r)
             ELSE start >= lo /\ end <= hi
    ELSE FALSE

\* contains with the found range's upper bound not compared.
containsStartOnly(rs, start, end) ==
    IF rs.count = 0 THEN FALSE
    ELSE IF ~(start < end) THEN FALSE
    ELSE \E i \in 0 .. (Len(rs.bounds) \div 2) - 1 :
             rs.bounds[2 * i + 1] <= start /\ start < rs.bounds[2 * i + 2]

contains(rs, start, end) ==
    IF rs.count = 0 THEN FALSE
    ELSE IF ~(start < end) THEN FALSE
    ELSE ContainsSearch(rs.bounds, start, end, 0, Len(rs.bounds))

\* RangeSet.insert: the binary search for `start` in lo...hi (hi inclusive).
RECURSIVE InsertSearch(_, _, _, _)
InsertSearch(b, start, l, r) ==
    IF l < r
    THEN LET m  == Mid(l, r)
             lo == b[m + 1]
             hi == b[m + 2]
         IN  IF start < lo THEN InsertSearch(b, start, l, m)
             ELSE IF start > hi THEN InsertSearch(b, start, m + 2, r)
             ELSE [l |-> m, start |-> lo]
    ELSE [l |-> l, start |-> start]

\* RangeSet.insert: the loop that finds the ranges to replace.
RECURSIVE InsertScan(_, _, _, _)
InsertScan(b, end, r, removedCount) ==
    IF r < Len(b)
    THEN LET lo == b[r + 1] IN
         IF end < lo THEN [r |-> r, end |-> end, removedCount |-> removedCount]
         ELSE LET hi == b[r + 2] IN
              IF end <= hi
              THEN [r |-> r + 2, end |-> hi, removedCount |-> removedCount + (hi - lo)]
              ELSE InsertScan(b, end, r + 2, removedCount + (hi - lo))
    ELSE [r |-> r, end |-> end, removedCount |-> removedCount]

\* insert with the count of the replaced ranges not subtracted.
insertCountingAll(rs, start, end) ==
    LET b == rs.bounds IN
    IF ~(start < end) THEN rs
    ELSE IF rs.count = 0 \/ start > b[Len(b)]
    THEN [bounds |-> b \o <<start, end>>, count |-> rs.count + (end - start)]
    ELSE IF start = b[Len(b)]
    THEN [bounds |-> [b EXCEPT ![Len(b)] = end], count |-> rs.count + (end - start)]
    ELSE LET s  == InsertSearch(b, start, 0, Len(b))
             sc == InsertScan(b, end, s.l, 0)
         IN  [bounds |-> SpliceSeq(b, s.l, sc.r - s.l, <<s.start, sc.end>>),
              count  |-> rs.count + (sc.end - s.start)]

\* insert returning early only for start > end: an empty range start = end goes on.
insertUnlessReversed(rs, start, end) ==
    LET b == rs.bounds IN
    IF start > end THEN rs
    ELSE IF rs.count = 0 \/ start > b[Len(b)]
    THEN [bounds |-> b \o <<start, end>>, count |-> rs.count + (end - start)]
    ELSE IF start = b[Len(b)]
    THEN [bounds |-> [b EXCEPT ![Len(b)] = end], count |-> rs.count + (end - start)]
    ELSE LET s  == InsertSearch(b, start, 0, Len(b))
             sc == InsertScan(b, end, s.l, 0)
         IN  [bounds |-> SpliceSeq(b, s.l, sc.r - s.l, <<s.start, sc.end>>),
              count  |-> rs.count + (sc.end - s.start) - sc.removedCount]

insert(rs, start, end) ==
    LET b == rs.bounds IN
    IF ~(start < end) THEN rs
    ELSE IF rs.count = 0 \/ start > b[Len(b)]
    THEN [bounds |-> b \o <<start, end>>, count |-> rs.count + (end - start)]
    ELSE IF start = b[Len(b)]
    THEN [bounds |-> [b EXCEPT ![Len(b)] = end], count |-> rs.count + (end - start)]
    ELSE LET s  == InsertSearch(b, start, 0, Len(b))
             sc == InsertScan(b, end, s.l, 0)
         IN  [bounds |-> SpliceSeq(b, s.l, sc.r - s.l, <<s.start, sc.end>>),
              count  |-> rs.count + (sc.end - s.start) - sc.removedCount]

\* The search of insertGapIn leaving the range that holds `start` whole.
RECURSIVE GapSearchUnsplit(_, _, _, _, _)
GapSearchUnsplit(b, start, end, l, r) ==
    IF l < r
    THEN LET m  == Mid(l, r)
             lo == b[m + 1]
             hi == b[m + 2]
         IN  IF start < lo THEN GapSearchUnsplit(b, start, end, l, m)
             ELSE IF start >= hi THEN GapSearchUnsplit(b, start, end, m + 2, r)
             ELSE IF start = lo THEN [l |-> m, bounds |-> b]
             ELSE [l |-> m + 2, bounds |-> b]
    ELSE [l |-> l, bounds |-> b]

\* RangeSet.insertGapIn: the binary search; splits the range that holds `start`.
RECURSIVE GapSearch(_, _, _, _, _)
GapSearch(b, start, end, l, r) ==
    IF l < r
    THEN LET m  == Mid(l, r)
             lo == b[m + 1]
             hi == b[m + 2]
         IN  IF start < lo THEN GapSearch(b, start, end, l, m)
             ELSE IF start >= hi THEN GapSearch(b, start, end, m + 2, r)
             ELSE IF start = lo THEN [l |-> m, bounds |-> b]
             ELSE [l |-> m + 4,
                   bounds |-> SpliceSeq([b EXCEPT ![m + 2] = start], m + 2, 0,
                                        <<end, hi + (end - start)>>)]
    ELSE [l |-> l, bounds |-> b]

\* bounds[i] += delta for every i >= l
ShiftFrom(b, l, delta) ==
    [i \in 1 .. Len(b) |-> IF i > l THEN b[i] + delta ELSE b[i]]

insertGapIn(rs, start, end) ==
    IF ~(start < end) THEN rs
    ELSE IF rs.count = 0 THEN rs
    ELSE LET g == GapSearch(rs.bounds, start, end, 0, Len(rs.bounds))
         IN  [bounds |-> ShiftFrom(g.bounds, g.l, end - start), count |-> rs.count]

\* insertSpanIn inserting the span with no gap made for it.
insertSpanInWithoutGap(rs, start, end) == insert(rs, start, end)

insertSpanIn(rs, start, end) ==
    insert(insertGapIn(rs, start, end), start, end)

\* RangeSet._remove: the binary search; `scan` says whether the second loop runs.
RECURSIVE RemoveSearch(_, _, _, _, _)
RemoveSearch(rs, start, end, l, r) ==
    LET b == rs.bounds IN
    IF l < r
    THEN LET m  == Mid(l, r)
             lo == b[m + 1]
             hi == b[m + 2]
         IN  IF start < lo THEN RemoveSearch(rs, start, end, l, m)
             ELSE IF start >= hi THEN RemoveSearch(rs, start, end, m + 2, r)
             ELSE IF start = lo THEN [scan |-> TRUE, l |-> m, set |-> rs]
             ELSE IF end >= hi
             THEN [scan |-> TRUE, l |-> m + 2,
                   set  |-> [bounds |-> [b EXCEPT ![m + 2] = start],
                             count  |-> rs.count - (hi - start)]]
             ELSE [scan |-> FALSE, l |-> m + 2,
                   set  |-> [bounds |-> SpliceSeq([b EXCEPT ![m + 2] = start],
                                                  m + 2, 0, <<end, hi>>),
                             count  |-> rs.count - (end - start)]]
    ELSE [scan |-> TRUE, l |-> l, set |-> rs]

\* RangeSet._remove: the loop that finds the ranges to remove.
RECURSIVE RemoveScan(_, _, _, _)
RemoveScan(rs, end, r, removedCount) ==
    LET b == rs.bounds IN
    IF r < Len(b)
    THEN LET lo == b[r + 1] IN
         IF end <= lo THEN [set |-> rs, r |-> r, removedCount |-> removedCount]
         ELSE LET hi == b[r + 2] IN
              IF end < hi
              THEN [set |-> [bounds |-> [b EXCEPT ![r + 1] = end],
                             count  |-> rs.count - (end - lo)],
                    r |-> r, removedCount |-> removedCount]
              ELSE RemoveScan(rs, end, r + 2, removedCount + (hi - lo))
    ELSE [set |-> rs, r |-> r, removedCount |-> removedCount]

\* RangeSet._remove: [l |-> the returned index, set |-> the set afterwards]
RemoveImpl(rs, start, end) ==
    IF ~(start < end) THEN [l |-> -1, set |-> rs]
    ELSE IF rs.count = 0 THEN [l |-> -1, set |-> rs]
    ELSE LET s == RemoveSearch(rs, start, end, 0, Len(rs.bounds)) IN
         IF ~s.scan THEN [l |-> s.l, set |-> s.set]
         ELSE LET sc == RemoveScan(s.set, end, s.l, 0)
                  nb == SpliceSeq(sc.set.bounds, s.l, sc.r - s.l, <<>>)
                  nc == sc.set.count - sc.removedCount
              IN  [l |-> s.l,
                   set |-> [bounds |-> nb, count |-> IF Len(nb) = 0 THEN 0 ELSE nc]]

remove(rs, start, end) == RemoveImpl(rs, start, end).set

\* removeSpanIn without the check for ranges that the shift made adjacent.
removeSpanInUnjoined(rs, start, end) ==
    LET rm == RemoveImpl(rs, start, end) IN
    IF rm.l = -1 THEN rm.set
    ELSE [bounds |-> ShiftFrom(rm.set.bounds, rm.l, -(end - start)), count |-> rm.set.count]

\* removeSpanIn shifting only when _remove took members away.
removeSpanInOnlyAfterRemoval(rs, start, end) ==
    LET rm == RemoveImpl(rs, start, end) IN
    IF rm.l = -1 \/ rm.set.count = rs.count THEN rm.set
    ELSE LET l  == rm.l
             sb == ShiftFrom(rm.set.bounds, l, -(end - start))
         IN  IF l # 0 /\ l # Len(sb) /\ sb[l + 1] = sb[l]
             THEN [bounds |-> SpliceSeq(sb, l - 1, 2, <<>>), count |-> rm.set.count]
             ELSE [bounds |-> sb, count |-> rm.set.count]

removeSpanIn(rs, start, end) ==
    LET rm == RemoveImpl(rs, start, end) IN
    IF rm.l = -1 THEN rm.set
    ELSE LET l  == rm.l
             sb == ShiftFrom(rm.set.bounds, l, -(end - start))
         IN  IF l # 0 /\ l # Len(sb) /\ sb[l + 1] = sb[l]
             THEN [bounds |-> SpliceSeq(sb, l - 1, 2, <<>>), count |-> rm.set.count]
             ELSE [bounds |-> sb, count |-> rm.set.count]

removeAll(rs) == [bounds |-> <<>>, count |-> 0]

\* RangeSet.toggle: binary search for the first bound >= start.
RECURSIVE ToggleSearch(_, _, _, _)
ToggleSearch(b, start, l, r) ==
    IF l < r
    THEN LET m == (l + r) \div 2 IN
         IF start <= b[m + 1] THEN ToggleSearch(b, start, l, m)
         ELSE ToggleSearch(b, start, m + 1, r)
    ELSE l

\* RangeSet.toggle: the first bound >= end, from r on.
RECURSIVE ToggleScan(_, _, _)
ToggleScan(b, end, r) ==
    IF r < Len(b) /\ ~(end <= b[r + 1]) THEN ToggleScan(b, end, r + 1) ELSE r

\* The count recalculated from the bounds, as toggle does.
RECURSIVE SumRanges(_, _)
SumRanges(b, i) ==
    IF i < Len(b) THEN (b[i + 2] - b[i + 1]) + SumRanges(b, i + 2) ELSE 0

toggle(rs, start, end) ==
    LET b == rs.bounds IN
    IF ~(start < end) THEN rs
    ELSE IF rs.count = 0
    THEN [bounds |-> b \o <<start, end>>, count |-> rs.count + (end - start)]
    ELSE LET l  == ToggleSearch(b, start, 0, Len(b))
             r0 == ToggleScan(b, end, l)
             atStart == l # Len(b) /\ start = b[l + 1]
             b1 == IF atStart THEN SpliceSeq(b, l, 1, <<>>)
                   ELSE SpliceSeq(b, l, 0, <<start>>)
             r  == IF atStart THEN r0 - 1 ELSE r0 + 1
             b2 == IF r # Len(b1) /\ end = b1[r + 1]
                   THEN SpliceSeq(b1, r, 1, <<>>)
                   ELSE SpliceSeq(b1, r, 0, <<end>>)
         IN  [bounds |-> b2, count |-> SumRanges(b2, 0)]

\* RangeSet.assignFrom and RangeSet.makeCopy: bounds.slice() and the count.
makeCopy(rs) == [bounds |-> SubSeq(rs.bounds, 1, Len(rs.bounds)), count |-> rs.count]

assignFrom(rs, other) == makeCopy(other)

\* An equality that compares the counts only.
isEqualByCount(rs, other) == rs.count = other.count

isEqual(rs, other) ==
    /\ Len(rs.bounds) = Len(other.bounds)
    /\ \A i \in 1 .. Len(rs.bounds) : rs.bounds[i] = other.bounds[i]

\* Number.NaN as the initial lastHi of union: every comparison with it is false.
NaN == [nan |-> TRUE, v |-> 0]
Num(n) == [nan |-> FALSE, v |-> n]
LeqNum(a, h) == ~h.nan /\ a <= h.v
LtNum(a, h) == ~h.nan /\ a < h.v

\* RangeSet.union: the merge loop over both bound lists.
RECURSIVE UnionMerge(_, _, _, _, _, _, _)
UnionMerge(tb, ob, p, q, bounds, count, lastHi) ==
    IF p < Len(tb) /\ q < Len(ob)
    THEN LET thisLo  == tb[p + 1]
             otherLo == ob[q + 1]
             takeThis == thisLo < otherLo
             lo == IF takeThis THEN thisLo ELSE otherLo
             hi == IF takeThis THEN tb[p + 2] ELSE ob[q + 2]
             p2 == IF takeThis THEN p + 2 ELSE p
             q2 == IF takeThis THEN q ELSE q + 2
         IN  IF LeqNum(hi, lastHi)
             THEN UnionMerge(tb, ob, p2, q2, bounds, count, lastHi)
             ELSE IF LeqNum(lo, lastHi)
             THEN UnionMerge(tb, ob, p2, q2, [bounds EXCEPT ![Len(bounds)] = hi],
                             count + (hi - lastHi.v), Num(hi))
             ELSE UnionMerge(tb, ob, p2, q2, bounds \o <<lo, hi>>,
                             count + (hi - lo), Num(hi))
    ELSE [p |-> p, q |-> q, bounds |-> bounds, count |-> count, lastHi |-> lastHi]

\* addRest, second loop: the remaining ranges are appended as they are.
RECURSIVE AddRestTail(_, _, _, _)
AddRestTail(bounds, source, i, count) ==
    IF i < Len(source)
    THEN AddRestTail(bounds \o <<source[i + 1], source[i + 2]>>, source, i + 2,
                     count + (source[i + 2] - source[i + 1]))
    ELSE [bounds |-> bounds, count |-> count]

\* addRest of RangeSet.union: [bounds |-> the bounds afterwards, count |-> the count added]
RECURSIVE addRest(_, _, _, _)
addRest(bounds, source, i, lastHi) ==
    IF i < Len(source)
    THEN LET hi == source[i + 2]
             lo == source[i + 1]
         IN  IF LtNum(hi, lastHi) THEN addRest(bounds, source, i + 2, lastHi)
             ELSE IF LeqNum(lo, lastHi)
             THEN AddRestTail([bounds EXCEPT ![Len(bounds)] = hi], source, i + 2,
                              hi - lastHi.v)
             ELSE AddRestTail(bounds \o <<lo, hi>>, source, i + 2, hi - lo)
    ELSE [bounds |-> bounds, count |-> 0]

union(rs, other) ==
    LET m == UnionMerge(rs.bounds, other.bounds, 0, 0, <<>>, 0, NaN) IN
    IF m.p < Len(rs.bounds)
    THEN LET a == addRest(m.bounds, rs.bounds, m.p, m.lastHi)
         IN  [bounds |-> a.bounds, count |-> m.count + a.count]
    ELSE IF m.q < Len(other.bounds)
    THEN LET a == addRest(m.bounds, other.bounds, m.q, m.lastHi)
         IN  [bounds |-> a.bounds, count |-> m.count + a.count]
    ELSE [bounds |-> m.bounds, count |-> m.count]

\* The merge loop of intersection with ranges that only touch taken as overlapping.
RECURSIVE IntersectMergeTouching(_, _, _, _, _, _)
IntersectMergeTouching(tb, ob, p, q, bounds, count) ==
    IF p < Len(tb) /\ q < Len(ob)
    THEN LET thisLo  == tb[p + 1]
             thisHi  == tb[p + 2]
             otherLo == ob[q + 1]
             otherHi == ob[q + 2]
             meet == thisHi >= otherLo /\ thisLo <= otherHi
             lo == Max(thisLo, otherLo)
             hi == Min(thisHi, otherHi)
             nb == IF meet THEN bounds \o <<lo, hi>> ELSE bounds
             nc == IF meet THEN count + (hi - lo) ELSE count
         IN  IF thisHi = otherHi THEN IntersectMergeTouching(tb, ob, p + 2, q + 2, nb, nc)
             ELSE IF thisHi < otherHi THEN IntersectMergeTouching(tb, ob, p + 2, q, nb, nc)
             ELSE IntersectMergeTouching(tb, ob, p, q + 2, nb, nc)
    ELSE [bounds |-> bounds, count |-> count]

\* RangeSet.intersection: the merge loop.
RECURSIVE IntersectMerge(_, _, _, _, _, _)
IntersectMerge(tb, ob, p, q, bounds, count) ==
    IF p < Len(tb) /\ q < Len(ob)
    THEN LET thisLo  == tb[p + 1]
             thisHi  == tb[p + 2]
             otherLo == ob[q + 1]
             otherHi == ob[q + 2]
             meet == thisHi > otherLo /\ thisLo < otherHi
             lo == Max(thisLo, otherLo)
             hi == Min(thisHi, otherHi)
             nb == IF meet THEN bounds \o <<lo, hi>> ELSE bounds
             nc == IF meet THEN count + (hi - lo) ELSE count
         IN  IF thisHi = otherHi THEN IntersectMerge(tb, ob, p + 2, q + 2, nb, nc)
             ELSE IF thisHi < otherHi THEN IntersectMerge(tb, ob, p + 2, q, nb, nc)
             ELSE IntersectMerge(tb, ob, p, q + 2, nb, nc)
    ELSE [bounds |-> bounds, count |-> count]

intersection(rs, other) == IntersectMerge(rs.bounds, other.bounds, 0, 0, <<>>, 0)

\* RangeSet.difference: remove every range of `other` from a copy.
RECURSIVE DifferenceLoop(_, _, _)
DifferenceLoop(res, ob, i) ==
    IF i < Len(ob)
    THEN DifferenceLoop(remove(res, ob[i + 1], ob[i + 2]), ob, i + 2)
    ELSE res

difference(rs, other) == DifferenceLoop(makeCopy(rs), other.bounds, 0)

\* The loop of symmetricDifference inserting the ranges where it is to toggle them.
RECURSIVE SymmetricLoopInserting(_, _, _)
SymmetricLoopInserting(res, lb, i) ==
    IF i < Len(lb)
    THEN SymmetricLoopInserting(insert(res, lb[i + 1], lb[i + 2]), lb, i + 2)
    ELSE res

\* RangeSet.symmetricDifference: toggle every range of the set with fewer bounds.
RECURSIVE SymmetricLoop(_, _, _)
SymmetricLoop(res, lb, i) ==
    IF i < Len(lb)
    THEN SymmetricLoop(toggle(res, lb[i + 1], lb[i + 2]), lb, i + 2)
    ELSE res

symmetricDifference(rs, other) ==
    LET otherIsMore == Len(rs.bounds) < Len(other.bounds)
        moreRanges == IF otherIsMore THEN other ELSE rs
        lessRanges == IF otherIsMore THEN rs ELSE other
    IN  SymmetricLoop(makeCopy(moreRanges), lessRanges.bounds, 0)

\* RangeSet[Symbol.iterator]: the members in ascending order.
RECURSIVE Iterate(_, _)
Iterate(b, i) ==
    IF i < Len(b)
    THEN [j \in 1 .. Max(0, b[i + 2] - b[i + 1]) |-> b[i + 1] + j - 1] \o Iterate(b, i + 2)
    ELSE <<>>

\* RangeSet.ranges(): the (start, end) pairs in ascending order.
RECURSIVE ranges(_, _)
ranges(b, i) ==
    IF i < Len(b) THEN <<(<<b[i + 1], b[i + 2]>>)>> \o ranges(b, i + 2) ELSE <<>>

\* RangeSet.reversedRanges(): the (start, end) pairs in descending order.
RECURSIVE reversedRanges(_, _)
reversedRanges(b, i) ==
    IF i >= 0 THEN <<(<<b[i + 1], b[i + 2]>>)>> \o reversedRanges(b, i - 2) ELSE <<>>

----------------------------------------------------------------------------
(* The RangeSet specification: a driver that constructs x, applies any     *)
(* sequence of mutating calls to it, and calls the combinators with any    *)
(* valid `other`.  A combinator returns a new object and changes neither   *)
(* operand, so the calls that may follow it are those that may follow the  *)
(* state before it: the driver drops the result before it goes on.         *)

\* The ascending sequence of the members of a finite set of integers.
RECURSIVE SortedSeq(_)
SortedSeq(S) ==
    IF S = {} THEN <<>>
    ELSE LET m == CHOOSE a \in S : \A c \in S : a <= c
         IN  <<m>> \o SortedSeq(S \ {m})

\* A RangeSet built as ArrayDiff.removedIndices builds one: insert(i) per index.
RECURSIVE InsertEach(_, _, _)
InsertEach(rs, seq, i) ==
    IF i <= Len(seq) THEN InsertEach(insert(rs, seq[i], seq[i] + 1), seq, i + 1) ELSE rs

RangeSetOf(S) == InsertEach(EmptyRangeSet, SortedSeq(S), 1)

\* The arguments of a RangeSet call; start >= end is the degenerate case.
Bounds == 0 .. MaxIndex + 1
Args == {a \in Bounds \X Bounds : a[2] >= a[1] - 1}
Interval(start, end) == start .. end - 1

Others == {RangeSetOf(S) : S \in SUBSET (0 .. MaxOther)}

\* The integers a RangeSet stands for, read off its bounds pair by pair.
RECURSIVE Members(_, _)
Members(b, i) ==
    IF i + 1 < Len(b) THEN (b[i + 1] .. b[i + 2] - 1) \cup Members(b, i + 2)
    ELSE IF i < Len(b) THEN {b[i + 1]}
    ELSE {}

MembersOf(rs) == Members(rs.bounds, 0)

Combinators == {"union", "intersection", "difference", "symmetricDifference"}

\* No bounds array is followed by address: the objects are taken by value.
NoHeap ==
    /\ heap = <<>>
    /\ at = [x |-> 0, y |-> 0, result |-> 0]

\* new AsyncBarrier(), with no work submitted.
AsyncIdle ==
    /\ _currentWorks = 0 /\ _workPool = <<>>
    /\ works = <<>> /\ started = <<>> /\ ticks = 0 /\ loop = <<>>

\* No RefCounted object.
RefIdle ==
    /\ ref = [value |-> <<>>, count |-> 0, releasing |-> FALSE]
    /\ finalized = 0 /\ retains = 0 /\ releases = 0
    /\ rcall = [op |-> "idle", threw |-> FALSE]

OtherIdle == AsyncIdle /\ RefIdle

DiffIdle ==
    /\ from = <<>> /\ to = <<>> /\ equal = "identity"
    /\ diff = [removals |-> <<>>, insertions |-> <<>>]
    /\ applied = <<>> /\ unapplied = <<>>
    /\ dstep = "idle"

\* A call on the reactive array: the operation and the arguments it was given.
Call(op, argc, index, count, items) ==
    [op |-> op, argc |-> argc, index |-> index, count |-> count, items |-> items]

NoCall == Call("none", 0, 0, 0, <<>>)

\* What a call returns: an array (splice, replaceIn), a number (push, unshift), an
\* element or undefined (pop, shift), or nothing the model keeps.
ReturnArray(a)   == [kind |-> "array", array |-> a, value |-> 0]
ReturnNumber(n)  == [kind |-> "number", array |-> <<>>, value |-> n]
ReturnElement(e) == [kind |-> "element", array |-> <<>>, value |-> e]
NoReturn         == [kind |-> "none", array |-> <<>>, value |-> 0]

ReactIdle ==
    /\ _host = <<>> /\ _equal = "identity" /\ _mutationBalance = 0
    /\ _onlyChange = <<>> /\ _original = <<>>
    /\ stack = <<>> /\ failing = FALSE /\ posted = <<>> /\ before = <<>>
    /\ nops = 0 /\ session = "idle" /\ last = NoCall /\ returned = NoReturn

InitRangeSet ==
    /\ \E a \in Args \cup {<<0, 0>>} : x = NewRangeSet(a[1], a[2])
    /\ xs = MembersOf(x)
    /\ y = EmptyRangeSet /\ ys = {}
    /\ result = EmptyRangeSet
    /\ rop = "new"
    /\ NoHeap
    /\ DiffIdle
    /\ ReactIdle
    /\ OtherIdle

\* One mutating call on x; `S` is the set of integers the call is to produce.
Mutate(op, rs, S) ==
    /\ rop \notin Combinators
    /\ x' = rs
    /\ xs' = S
    /\ rop' = op
    /\ UNCHANGED <<y, ys, result, heap, at, diffVars, reactVars, otherVars>>

Insert ==
    \E a \in Args : Mutate("insert", insert(x, a[1], a[2]), xs \cup Interval(a[1], a[2]))

Remove ==
    \E a \in Args : Mutate("remove", remove(x, a[1], a[2]), xs \ Interval(a[1], a[2]))

Toggle ==
    \E a \in Args :
        Mutate("toggle", toggle(x, a[1], a[2]),
               (xs \ Interval(a[1], a[2])) \cup (Interval(a[1], a[2]) \ xs))

\* The shifted members must stay inside 0 .. MaxIndex.
Fits(delta) == \A i \in xs : i + delta <= MaxIndex

InsertGapIn ==
    \E a \in Args :
        LET d == IF a[1] < a[2] THEN a[2] - a[1] ELSE 0 IN
        /\ Fits(d)
        /\ Mutate("insertGapIn", insertGapIn(x, a[1], a[2]),
                  {i \in xs : i < a[1]} \cup {i + d : i \in {j \in xs : j >= a[1]}})

InsertSpanIn ==
    \E a \in Args :
        LET d == IF a[1] < a[2] THEN a[2] - a[1] ELSE 0 IN
        /\ Fits(d)
        /\ Mutate("insertSpanIn", insertSpanIn(x, a[1], a[2]),
                  {i \in xs : i < a[1]} \cup Interval(a[1], a[2])
                      \cup {i + d : i \in {j \in xs : j >= a[1]}})

RemoveSpanIn ==
    \E a \in Args :
        LET d == IF a[1] < a[2] THEN a[2] - a[1] ELSE 0 IN
        Mutate("removeSpanIn", removeSpanIn(x, a[1], a[2]),
               {i \in xs : i < a[1]} \cup {i - d : i \in {j \in xs : j >= a[2] /\ j >= a[1]}})

RemoveAll == Mutate("removeAll", removeAll(x), {})

AssignFrom ==
    \E other \in Others : Mutate("assignFrom", assignFrom(x, other), MembersOf(other))

\* One combinator call x.op(other).
Combine(op, other, res) ==
    /\ rop \notin Combinators
    /\ y' = other
    /\ ys' = MembersOf(other)
    /\ result' = res
    /\ rop' = op
    /\ UNCHANGED <<x, xs, heap, at, diffVars, reactVars, otherVars>>

Union == \E other \in Others : Combine("union", other, union(x, other))

Intersection == \E other \in Others : Combine("intersection", other, intersection(x, other))

Difference == \E other \in Others : Combine("difference", other, difference(x, other))

SymmetricDifference ==
    \E other \in Others : Combine("symmetricDifference", other, symmetricDifference(x, other))

\* The driver drops the combinator's result and goes on with x.
Drop ==
    /\ rop \in Combinators
    /\ rop' = "drop"
    /\ y' = EmptyRangeSet /\ ys' = {}
    /\ result' = EmptyRangeSet
    /\ UNCHANGED <<x, xs, heap, at, diffVars, reactVars, otherVars>>

NextRangeSet ==
    \/ Insert \/ Remove \/ Toggle
    \/ InsertGapIn \/ InsertSpanIn \/ RemoveSpanIn
    \/ RemoveAll \/ AssignFrom
    \/ Union \/ Intersection \/ Difference \/ SymmetricDifference
    \/ Drop

SpecRangeSet == InitRangeSet /\ [][NextRangeSet]_vars

----------------------------------------------------------------------------
(* The RangeSet specification of copies: two objects x and y whose bounds   *)
(* arrays lie in a heap, so that two objects can hold the same array.  The   *)
(* mutating methods change the array of their receiver in place (push and   *)
(* splice); only assignFrom and makeCopy give an object another array.  x,  *)
(* y and result are the objects as their fields read: the bounds read        *)
(* through the address, and the object's own count.                         *)

\* The members of both objects lie in 0 .. MaxCopyIndex.
MaxCopyIndex == 2

CopyArgs == {a \in (0 .. MaxCopyIndex + 1) \X (0 .. MaxCopyIndex + 1) : a[1] < a[2]}

Objects == {"x", "y"}
OtherThan(o) == IF o = "x" THEN "y" ELSE "x"

Mutators == {"insert", "remove", "toggle", "insertGapIn", "insertSpanIn", "removeSpanIn",
             "removeAll"}

\* The address of a new array: the least one that no live array has.
Fresh(h) ==
    CHOOSE n \in 1 .. Cardinality(DOMAIN h) + 1 :
        n \notin DOMAIN h /\ \A m \in 1 .. n - 1 : m \in DOMAIN h

\* A copy that is the array itself.
sliceSameArray(h, a) == [heap |-> h, address |-> a]

\* Array.prototype.slice(): a new array with the elements of the array at `a`.
slice(h, a) == LET n == Fresh(h) IN [heap |-> (n :> h[a]) @@ h, address |-> n]

\* new RangeSet(): an object with a new empty bounds array.
NewArray(h) == LET n == Fresh(h) IN [heap |-> (n :> <<>>) @@ h, address |-> n]

\* The addresses after the arrays that no object holds are collected and the others
\* moved: the array of x to 1, the array of y next, the array of result last.  Two
\* objects that hold the same array still do.
Moved(a) ==
    LET ny == IF a.y = a.x THEN 1 ELSE 2
    IN  [x |-> 1, y |-> ny,
         result |-> IF a.result = 0 THEN 0
                    ELSE IF a.result = a.x THEN 1
                    ELSE IF a.result = a.y THEN ny
                    ELSE ny + 1]

\* The heap after that collection.
Collect(h, a) ==
    LET m == Moved(a)
    IN  [n \in {m.x, m.y, m.result} \ {0} |->
            IF n = m.x THEN h[a.x] ELSE IF n = m.y THEN h[a.y] ELSE h[a.result]]

\* The fields of x or y.
Object(o) == IF o = "x" THEN x ELSE y

\* The mutating method `op` called on a set with the fields rs.
Invoke(op, rs, start, end) ==
    CASE op = "insert"       -> insert(rs, start, end)
      [] op = "remove"       -> remove(rs, start, end)
      [] op = "toggle"       -> toggle(rs, start, end)
      [] op = "insertGapIn"  -> insertGapIn(rs, start, end)
      [] op = "insertSpanIn" -> insertSpanIn(rs, start, end)
      [] op = "removeSpanIn" -> removeSpanIn(rs, start, end)
      [] op = "removeAll"    -> removeAll(rs)

\* The combinator `op` called on rs with `other`.
Combined(op, rs, other) ==
    CASE op = "union"               -> union(rs, other)
      [] op = "intersection"        -> intersection(rs, other)
      [] op = "difference"          -> difference(rs, other)
      [] op = "symmetricDifference" -> symmetricDifference(rs, other)

InitCopy ==
    /\ \E a \in CopyArgs \cup {<<0, 0>>} : x = NewRangeSet(a[1], a[2])
    /\ y = EmptyRangeSet
    /\ heap = (1 :> x.bounds) @@ (2 :> y.bounds)
    /\ at = [x |-> 1, y |-> 2, result |-> 0]
    /\ xs = MembersOf(x) /\ ys = {}
    /\ result = EmptyRangeSet
    /\ rop = [op |-> "new", on |-> "x", copied |-> FALSE]
    /\ DiffIdle
    /\ ReactIdle
    /\ OtherIdle

\* The state after the call `op` on the object `on`, which left the heap h, the
\* addresses a and the counts cx and cy: x and y are read through their addresses.
After(op, on, h, a, cx, cy) ==
    /\ heap' = Collect(h, a)
    /\ at' = Moved(a)
    /\ x' = [bounds |-> h[a.x], count |-> cx]
    /\ y' = [bounds |-> h[a.y], count |-> cy]
    /\ xs' = MembersOf(x') /\ ys' = MembersOf(y')
    /\ rop' = [op |-> op, on |-> on,
               copied |-> rop.copied \/ op \in {"assignFrom", "makeCopy"}]
    /\ UNCHANGED <<diffVars, reactVars, otherVars>>

\* o.insert(start, end) and the other mutating methods: the bounds array of o is
\* changed in place, and the count of o is set.
CallMutator ==
    \E op \in Mutators, o \in Objects, a \in CopyArgs :
        LET v == Invoke(op, Object(o), a[1], a[2]) IN
        /\ rop.op \notin Combinators
        /\ MembersOf(v) \subseteq 0 .. MaxCopyIndex
        /\ After(op, o, [heap EXCEPT ![at[o]] = v.bounds], at,
                 IF o = "x" THEN v.count ELSE x.count,
                 IF o = "y" THEN v.count ELSE y.count)
        /\ UNCHANGED result

\* o.assignFrom(other): this[$].bounds = other[$].bounds.slice(), and the count.
CallAssignFrom ==
    \E o \in Objects :
        LET other == OtherThan(o)
            s == slice(heap, at[other])
        IN  /\ rop.op \notin Combinators
            /\ After("assignFrom", o, s.heap, [at EXCEPT ![o] = s.address],
                     Object(other).count, Object(other).count)
            /\ UNCHANGED result

\* The variable of the other object is given other = o.makeCopy(): a new RangeSet
\* with o's bounds.slice() and o's count.
CallMakeCopy ==
    \E o \in Objects :
        LET other == OtherThan(o)
            n == NewArray(heap)
            s == slice(n.heap, at[o])
        IN  /\ rop.op \notin Combinators
            /\ After("makeCopy", o, s.heap, [at EXCEPT ![other] = s.address],
                     Object(o).count, Object(o).count)
            /\ UNCHANGED result

\* result = o.op(other): union and intersection push onto the array of a new
\* RangeSet; difference and symmetricDifference remove from or toggle in a copy
\* of the receiver or of the operand with more ranges.
CallCombinator ==
    \E op \in Combinators, o \in Objects :
        LET other == OtherThan(o)
            more == IF Len(Object(o).bounds) < Len(Object(other).bounds) THEN other ELSE o
            s == CASE op \in {"union", "intersection"} -> NewArray(heap)
                   [] op = "difference" -> slice(heap, at[o])
                   [] op = "symmetricDifference" -> slice(heap, at[more])
            v == Combined(op, Object(o), Object(other))
        IN  /\ rop.op \notin Combinators
            /\ After(op, o, [s.heap EXCEPT ![s.address] = v.bounds],
                     [at EXCEPT !.result = s.address], x.count, y.count)
            /\ result' = v

\* The driver drops the combinator's result.
DropResult ==
    /\ rop.op \in Combinators
    /\ After("drop", rop.on, heap, [at EXCEPT !.result = 0], x.count, y.count)
    /\ result' = EmptyRangeSet

NextCopy ==
    \/ CallMutator
    \/ CallAssignFrom
    \/ CallMakeCopy
    \/ CallCombinator
    \/ DropResult

SpecCopy == InitCopy /\ [][NextCopy]_vars

----------------------------------------------------------------------------
(* Diffing.ts *)

\* The injected equality predicates: Object.is on numbers; a coarser equivalence
\* (equal parity, undefined equal to itself only); and a reflexive predicate that is
\* not symmetric, as `equals` is when the left operand implements isEqual.
EqualNames == {"identity", "parity", "atMost"}

Equal(name, a, b) ==
    CASE name = "identity" -> a = b
      [] name = "parity"   -> a = b \/ (a >= 0 /\ b >= 0 /\ a % 2 = b % 2)
      [] name = "atMost"   -> a <= b

\* class _V: an array of largest + 1 zeros, indexed by diagonal.
NewV(largest) == [i \in 1 .. largest + 1 |-> 0]
VIndex(index) == IF index <= 0 THEN -index ELSE index - 1
VAt(v, index) == v[VIndex(index) + 1]
VSetAt(v, index, value) == [v EXCEPT ![VIndex(index) + 1] = value]

\* A diagonal followed for one equal pair at most.
SlideOnce(a, b, cmp, px, py) ==
    IF px < Len(a) /\ py < Len(b) /\ Equal(cmp, a[px + 1], b[py + 1])
    THEN px + 1
    ELSE px

\* _descent: follow the diagonal while the elements are equal; the x reached.
RECURSIVE Slide(_, _, _, _, _)
Slide(a, b, cmp, px, py) ==
    IF px < Len(a) /\ py < Len(b) /\ Equal(cmp, a[px + 1], b[py + 1])
    THEN Slide(a, b, cmp, px + 1, py + 1)
    ELSE px

\* The start of a diagonal with the tie between the two neighbours decided for k + 1.
DescentStartTieDown(prev_v, d, k) ==
    IF k = -d THEN VAt(prev_v, k + 1)
    ELSE LET km == VAt(prev_v, k - 1) IN
         IF k # d
         THEN LET kp == VAt(prev_v, k + 1) IN IF km <= kp THEN kp ELSE km + 1
         ELSE km + 1

\* _descent: the x a diagonal k starts from at depth d.
DescentStart(prev_v, d, k) ==
    IF k = -d THEN VAt(prev_v, k + 1)
    ELSE LET km == VAt(prev_v, k - 1) IN
         IF k # d
         THEN LET kp == VAt(prev_v, k + 1) IN IF km < kp THEN kp ELSE km + 1
         ELSE km + 1

\* An inner loop that breaks as soon as either array is used up.
RECURSIVE DescentKUntilEither(_, _, _, _, _, _, _)
DescentKUntilEither(a, b, cmp, d, k, prev_v, v) ==
    IF k <= d
    THEN LET px == Slide(a, b, cmp, DescentStart(prev_v, d, k), DescentStart(prev_v, d, k) - k)
             py == px - k
             nv == VSetAt(v, k, px)
         IN  IF px >= Len(a) \/ py >= Len(b) THEN [v |-> nv, reached |-> TRUE]
             ELSE DescentKUntilEither(a, b, cmp, d, k + 2, prev_v, nv)
    ELSE [v |-> v, reached |-> FALSE]

\* _descent: the inner loop over the diagonals k = -d, -d + 2, ..., d.
RECURSIVE DescentK(_, _, _, _, _, _, _)
DescentK(a, b, cmp, d, k, prev_v, v) ==
    IF k <= d
    THEN LET px == Slide(a, b, cmp, DescentStart(prev_v, d, k), DescentStart(prev_v, d, k) - k)
             py == px - k
             nv == VSetAt(v, k, px)
         IN  IF px >= Len(a) /\ py >= Len(b) THEN [v |-> nv, reached |-> TRUE]
             ELSE DescentK(a, b, cmp, d, k + 2, prev_v, nv)
    ELSE [v |-> v, reached |-> FALSE]

\* _descent: the outer loop over the depths d = 0 .. n + m.
RECURSIVE DescentD(_, _, _, _, _, _)
DescentD(a, b, cmp, d, v, trace) ==
    IF d <= Len(a) + Len(b)
    THEN LET r == DescentK(a, b, cmp, d, -d, v, NewV(d)) IN
         IF r.reached THEN Append(trace, v)
         ELSE DescentD(a, b, cmp, d + 1, r.v, Append(trace, v))
    ELSE trace

_descent(a, b, cmp) == DescentD(a, b, cmp, 0, NewV(1), <<>>)

\* A backtracking step that takes the diagonal above also when its two neighbours
\* have come equally far.
FormStepTieDown(a, b, trace, d, px, py) ==
    LET v      == trace[d + 1]
        k      == px - py
        prev_k == IF k = -d \/ (k # d /\ VAt(v, k - 1) <= VAt(v, k + 1))
                  THEN k + 1 ELSE k - 1
        prev_x == VAt(v, prev_k)
        prev_y == prev_x - prev_k
        back   == Max(0, Min(px - prev_x, py - prev_y))
    IN  [k |-> k, prev_k |-> prev_k, prev_x |-> prev_x, prev_y |-> prev_y,
         x |-> px - back, y |-> py - back,
         change |-> IF py - back # prev_y
                    THEN [insertedAt |-> prev_y, element |-> ElementAt(b, prev_y)]
                    ELSE [removedAt |-> prev_x, element |-> ElementAt(a, prev_x)]]

\* _formChanges: one pass of the backtracking loop, at depth d from the point
\* (px, py): the diagonal k it is on, the predecessor it chooses, the point (x, y)
\* where the while loop stops, and the change it pushes.
FormStep(a, b, trace, d, px, py) ==
    LET v      == trace[d + 1]
        k      == px - py
        prev_k == IF k = -d \/ (k # d /\ VAt(v, k - 1) < VAt(v, k + 1))
                  THEN k + 1 ELSE k - 1
        prev_x == VAt(v, prev_k)
        prev_y == prev_x - prev_k
        back   == Max(0, Min(px - prev_x, py - prev_y))
    IN  [k |-> k, prev_k |-> prev_k, prev_x |-> prev_x, prev_y |-> prev_y,
         x |-> px - back, y |-> py - back,
         change |-> IF py - back # prev_y
                    THEN [insertedAt |-> prev_y, element |-> ElementAt(b, prev_y)]
                    ELSE [removedAt |-> prev_x, element |-> ElementAt(a, prev_x)]]

\* _formChanges: the backtracking loop from d = trace.length - 1 down to 1.
RECURSIVE FormLoop(_, _, _, _, _, _, _)
FormLoop(a, b, trace, d, px, py, changes) ==
    IF d > 0
    THEN LET step == FormStep(a, b, trace, d, px, py)
         IN  FormLoop(a, b, trace, d - 1, step.prev_x, step.prev_y,
                      Append(changes, step.change))
    ELSE changes

_formChanges(a, b, trace) == FormLoop(a, b, trace, Len(trace) - 1, Len(a), Len(b), <<>>)

\* Array.prototype.filter
RECURSIVE Filter(_, _)
Filter(s, key) ==
    IF s = <<>> THEN <<>>
    ELSE IF key \in DOMAIN Head(s) THEN <<Head(s)>> \o Filter(Tail(s), key)
    ELSE Filter(Tail(s), key)

\* Array.prototype.sort by the index field `key` (a stable sort).
RECURSIVE SortByIndex(_, _)
SortByIndex(s, key) ==
    IF s = <<>> THEN <<>>
    ELSE LET rest == SortByIndex(Tail(s), key)
             h    == Head(s)
             n    == Cardinality({i \in 1 .. Len(rest) : rest[i][key] < h[key]})
         IN  SubSeq(rest, 1, n) \o <<h>> \o SubSeq(rest, n + 1, Len(rest))

\* new ArrayDiff(ascendingRemovals, ascendingInsertions)
ArrayDiff(ascendingRemovals, ascendingInsertions) ==
    [removals |-> ascendingRemovals, insertions |-> ascendingInsertions]

\* arrayDiff handing the changes over in the order backtracking formed them.
arrayDiffUnsorted(a, b, cmp, droppedStart) ==
    LET changes    == _formChanges(a, b, _descent(a, b, cmp))
        removals   == Filter(changes, "removedAt")
        insertions == Filter(changes, "insertedAt")
    IN  ArrayDiff(
            [i \in 1 .. Len(removals) |->
                [removals[i] EXCEPT !.removedAt = @ + droppedStart]],
            [i \in 1 .. Len(insertions) |->
                [insertions[i] EXCEPT !.insertedAt = @ + droppedStart]])

\* arrayDiff adding the offset to the removals only.
arrayDiffOffsettingRemovals(a, b, cmp, droppedStart) ==
    LET changes    == _formChanges(a, b, _descent(a, b, cmp))
        removals   == SortByIndex(Filter(changes, "removedAt"), "removedAt")
        insertions == SortByIndex(Filter(changes, "insertedAt"), "insertedAt")
    IN  ArrayDiff(
            [i \in 1 .. Len(removals) |->
                [removals[i] EXCEPT !.removedAt = @ + droppedStart]],
            insertions)

arrayDiff(a, b, cmp, droppedStart) ==
    LET changes    == _formChanges(a, b, _descent(a, b, cmp))
        removals   == SortByIndex(Filter(changes, "removedAt"), "removedAt")
        insertions == SortByIndex(Filter(changes, "insertedAt"), "insertedAt")
    IN  ArrayDiff(
            [i \in 1 .. Len(removals) |->
                [removals[i] EXCEPT !.removedAt = @ + droppedStart]],
            [i \in 1 .. Len(insertions) |->
                [insertions[i] EXCEPT !.insertedAt = @ + droppedStart]])

\* ArrayDiff.singleChange
singleChange(index, oldValue, newValue) ==
    ArrayDiff(<<[removedAt |-> index, element |-> oldValue]>>,
              <<[insertedAt |-> index, element |-> newValue]>>)

\* ArrayDiff.removedIndices and ArrayDiff.insertedIndices
removedIndices(d) ==
    InsertEach(EmptyRangeSet, [i \in 1 .. Len(d.removals) |-> d.removals[i].removedAt], 1)

insertedIndices(d) ==
    InsertEach(EmptyRangeSet, [i \in 1 .. Len(d.insertions) |-> d.insertions[i].insertedAt], 1)

\* An iterator that yields the removals first to last.
iteratorAscending(d) == d.removals \o d.insertions

\* ArrayDiff[Symbol.iterator]: the changes in the order they are yielded.
iterator(d) ==
    [i \in 1 .. Len(d.removals) |-> d.removals[Len(d.removals) - i + 1]] \o d.insertions

\* An inverse that keeps the removals as removals and the insertions as insertions.
inverseUnswapped(d) == ArrayDiff(d.removals, d.insertions)

\* ArrayDiff.inverse
inverse(d) ==
    ArrayDiff(
        [i \in 1 .. Len(d.insertions) |->
            [removedAt |-> d.insertions[i].insertedAt, element |-> d.insertions[i].element]],
        [i \in 1 .. Len(d.removals) |->
            [insertedAt |-> d.removals[i].removedAt, element |-> d.removals[i].element]])

\* Array.prototype.splice(start, deleteCount, ...items) for start >= 0: the array
\* afterwards, start and deleteCount clamped as ECMAScript does.
Splice(array, start, deleteCount, items) ==
    LET actualStart == Min(start, Len(array))
        actualCount == Min(Max(deleteCount, 0), Len(array) - actualStart)
    IN  SpliceSeq(array, actualStart, actualCount, items)

\* ArrayDiff.applyInto, first loop: remove the removed ranges, last range first.
RECURSIVE ApplyRemovals(_, _, _)
ApplyRemovals(array, revRanges, i) ==
    IF i <= Len(revRanges)
    THEN ApplyRemovals(Splice(array, revRanges[i][1], revRanges[i][2] - revRanges[i][1], <<>>),
                       revRanges, i + 1)
    ELSE array

\* Array.prototype.slice(i, j) of the insertions, mapped to their elements.
ElementsOf(insertions, i, j) ==
    [n \in 1 .. Max(0, Min(j, Len(insertions)) - i) |-> insertions[i + n].element]

\* ArrayDiff.applyInto, second loop: insert the inserted ranges, first range first.
RECURSIVE ApplyInsertions(_, _, _, _, _)
ApplyInsertions(array, insertions, rngs, r, i) ==
    IF r <= Len(rngs)
    THEN LET lo == rngs[r][1]
             hi == rngs[r][2]
             j  == i + (hi - lo)
         IN  ApplyInsertions(Splice(array, lo, 0, ElementsOf(insertions, i, j)),
                             insertions, rngs, r + 1, j)
    ELSE array

\* applyInto with the removed ranges taken first range first.
applyIntoAscending(d, array) ==
    LET rem == removedIndices(d).bounds
        ins == insertedIndices(d).bounds
        cut == ApplyRemovals(array, ranges(rem, 0), 1)
    IN  ApplyInsertions(cut, d.insertions, ranges(ins, 0), 1, 0)

\* applyInto making the insertions before the removals.
applyIntoInsertingFirst(d, array) ==
    LET rem == removedIndices(d).bounds
        ins == insertedIndices(d).bounds
        put == ApplyInsertions(array, d.insertions, ranges(ins, 0), 1, 0)
    IN  ApplyRemovals(put, reversedRanges(rem, Len(rem) - 2), 1)

applyInto(d, array) ==
    LET rem == removedIndices(d).bounds
        ins == insertedIndices(d).bounds
        cut == ApplyRemovals(array, reversedRanges(rem, Len(rem) - 2), 1)
    IN  ApplyInsertions(cut, d.insertions, ranges(ins, 0), 1, 0)

\* ArrayDiff.apply: applyInto on a copy.
apply(d, array) == applyInto(d, array)


----------------------------------------------------------------------------
(* Reactive.ts: _ReactiveArrayCore.  A core is the record                  *)
(*   [host, mutationBalance, onlyChange, original, posted, error]          *)
(* where `posted` collects what NotificationCenter.default.post was given  *)
(* and `error` says that the call threw.                                   *)

\* A length that Array rejects with a RangeError.
InvalidLength == -1

\* A number given as an argument of splice or replaceIn is written in halves, so
\* that fractional arguments exist: 5 stands for 2.5, and Whole(i) for the integer i.
Whole(i) == 2 * i

\* _ESUtils.ts: toIntegerOrInfinity (Math.trunc: toward zero), of a number in halves.
toIntegerOrInfinity(value) ==
    IF value >= 0 THEN value \div 2 ELSE -((-value) \div 2)

\* _ESUtils.ts: resolveIndex, of an index in halves on an integer length.
resolveIndex(index, length, present) ==
    IF ~present THEN 0
    ELSE LET i == toIntegerOrInfinity(index)
         IN  IF i < 0 THEN Max(0, length + i) ELSE Min(i, length)

\* Array.prototype.splice as called with argc arguments: the array afterwards and
\* the removed elements.
SpliceCall(array, argc, index, count, items) ==
    LET len         == Len(array)
        actualStart == resolveIndex(index, len, argc > 0)
        actualCount == IF argc = 0 THEN 0
                       ELSE IF argc = 1 THEN len - actualStart
                       ELSE Min(Max(toIntegerOrInfinity(count), 0), len - actualStart)
    IN  [array   |-> SpliceSeq(array, actualStart, actualCount, items),
         removed |-> SubSeq(array, actualStart + 1, actualStart + actualCount)]

\* array.length = length: truncates, or extends with holes.
WithLength(array, length) ==
    [i \in 1 .. length |-> IF i <= Len(array) THEN array[i] ELSE Undefined]

\* array[key] = value (Reflect.set on the array) for a key
\* [kind |-> "index", index |-> i], [kind |-> "name"] or [kind |-> "fraction"]:
\* only an integer index changes the elements.
WithElement(array, key, value) ==
    IF key.kind = "index"
    THEN [WithLength(array, Max(Len(array), key.index + 1)) EXCEPT ![key.index + 1] = value]
    ELSE array

beginMutation(c) == [c EXCEPT !.mutationBalance = @ + 1]

\* endMutation posting whatever the balance has come to.
endMutationAtAnyBalance(c, eq) ==
    LET c1 == [c EXCEPT !.mutationBalance = @ - 1] IN
    IF Len(c1.onlyChange) # 0
    THEN [c1 EXCEPT !.onlyChange = <<>>, !.posted = Append(@, c1.onlyChange[1])]
    ELSE IF Len(c1.original) # 0
    THEN [c1 EXCEPT !.original = <<>>,
                    !.posted = Append(@, arrayDiff(c1.original[1], c1.host, eq, 0))]
    ELSE c1

\* endMutation posting before it clears what is pending.
endMutationPostingBeforeClearing(c, eq) ==
    LET c1 == [c EXCEPT !.mutationBalance = @ - 1] IN
    IF c1.mutationBalance # 0 THEN c1
    ELSE IF Len(c1.onlyChange) # 0
    THEN [c1 EXCEPT !.posted = Append(@, c1.onlyChange[1])]
    ELSE IF Len(c1.original) # 0
    THEN [c1 EXCEPT !.posted = Append(@, arrayDiff(c1.original[1], c1.host, eq, 0))]
    ELSE c1

endMutation(c, eq) ==
    LET c1 == [c EXCEPT !.mutationBalance = @ - 1] IN
    IF c1.mutationBalance # 0 THEN c1
    ELSE IF Len(c1.onlyChange) # 0
    THEN [c1 EXCEPT !.onlyChange = <<>>, !.posted = Append(@, c1.onlyChange[1])]
    ELSE IF Len(c1.original) # 0
    THEN [c1 EXCEPT !.original = <<>>,
                    !.posted = Append(@, arrayDiff(c1.original[1], c1.host, eq, 0))]
    ELSE c1

\* cancelMutation posting the only change before it drops it.
cancelMutationPosting(c) ==
    LET c1 == [c EXCEPT !.mutationBalance = @ - 1] IN
    IF c1.mutationBalance # 0 THEN c1
    ELSE [c1 EXCEPT !.onlyChange = <<>>, !.original = <<>>,
                    !.posted = IF Len(c1.onlyChange) # 0
                               THEN Append(@, c1.onlyChange[1]) ELSE @]

\* cancelMutation discarding what is pending whatever the balance has come to.
cancelMutationDiscardingAlways(c) ==
    [c EXCEPT !.mutationBalance = @ - 1, !.onlyChange = <<>>, !.original = <<>>]

cancelMutation(c) ==
    LET c1 == [c EXCEPT !.mutationBalance = @ - 1] IN
    IF c1.mutationBalance # 0 THEN c1
    ELSE [c1 EXCEPT !.onlyChange = <<>>, !.original = <<>>]

\* _recordChange keeping the first change when a second one comes.
_recordChangeKeepingFirst(c, d) ==
    IF c.mutationBalance = 0 THEN [c EXCEPT !.error = TRUE]
    ELSE IF Len(c.original) # 0 THEN c
    ELSE IF Len(c.onlyChange) = 0 THEN [c EXCEPT !.onlyChange = <<d>>]
    ELSE c

\* _recordChange rebuilding the snapshot without undoing the change that arrives.
_recordChangeUndoingPendingOnly(c, d) ==
    IF c.mutationBalance = 0 THEN [c EXCEPT !.error = TRUE]
    ELSE IF Len(c.original) # 0 THEN c
    ELSE IF Len(c.onlyChange) = 0 THEN [c EXCEPT !.onlyChange = <<d>>]
    ELSE [c EXCEPT !.original = <<applyInto(inverse(c.onlyChange[1]), c.host)>>,
                   !.onlyChange = <<>>]

_recordChange(c, d) ==
    IF c.mutationBalance = 0 THEN [c EXCEPT !.error = TRUE]
    ELSE IF Len(c.original) # 0 THEN c
    ELSE IF Len(c.onlyChange) = 0 THEN [c EXCEPT !.onlyChange = <<d>>]
    ELSE [c EXCEPT !.original = <<applyInto(inverse(c.onlyChange[1]),
                                             apply(inverse(d), c.host))>>,
                   !.onlyChange = <<>>]

\* A snapshot that forgets to drop the pending diff it was rebuilt from.
LoadOriginalKeepingChange(c) ==
    IF Len(c.onlyChange) = 0
    THEN [c EXCEPT !.original = <<c.host>>]
    ELSE [c EXCEPT !.original = <<apply(inverse(c.onlyChange[1]), c.host)>>]

\* The snapshot setAt and setLength take when a change cannot be recorded.
LoadOriginal(c) ==
    IF Len(c.onlyChange) = 0
    THEN [c EXCEPT !.original = <<c.host>>]
    ELSE [c EXCEPT !.original = <<apply(inverse(c.onlyChange[1]), c.host)>>,
                   !.onlyChange = <<>>]

\* An assignment that records the new value as the removed element and the old one
\* as the inserted element.
setAtSwapped(c, eq, key, value) ==
    IF Len(c.original) # 0 THEN [c EXCEPT !.host = WithElement(@, key, value)]
    ELSE IF key.kind = "name" THEN [c EXCEPT !.host = WithElement(@, key, value)]
    ELSE IF key.kind = "index" /\ key.index < Len(c.host)
    THEN LET old == c.host[key.index + 1]
             c1  == IF ~Equal(eq, old, value)
                    THEN _recordChange(c, singleChange(key.index, value, old))
                    ELSE c
         IN  IF c1.error THEN c1
             ELSE [c1 EXCEPT !.host = WithElement(@, key, value)]
    ELSE [LoadOriginal(c) EXCEPT !.host = WithElement(@, key, value)]

setAt(c, eq, key, value) ==
    IF Len(c.original) # 0 THEN [c EXCEPT !.host = WithElement(@, key, value)]
    ELSE IF key.kind = "name" THEN [c EXCEPT !.host = WithElement(@, key, value)]
    ELSE IF key.kind = "index" /\ key.index < Len(c.host)
    THEN LET old == c.host[key.index + 1]
             c1  == IF ~Equal(eq, old, value)
                    THEN _recordChange(c, singleChange(key.index, old, value))
                    ELSE c
         IN  IF c1.error THEN c1
             ELSE [c1 EXCEPT !.host = WithElement(@, key, value)]
    ELSE [LoadOriginal(c) EXCEPT !.host = WithElement(@, key, value)]

\* A length assignment that, when nothing is pending, copies the array only after
\* it has changed its length.
setLengthSnapshotAfter(c, length) ==
    IF length = Len(c.host) THEN c
    ELSE LET c1 == IF Len(c.original) # 0 THEN c
                   ELSE IF Len(c.onlyChange) # 0 THEN LoadOriginal(c)
                   ELSE IF c.mutationBalance # 0 THEN LoadOriginal(c)
                   ELSE c
         IN  IF Len(c1.original) # 0
             THEN IF length = InvalidLength THEN [c1 EXCEPT !.error = TRUE]
                  ELSE [c1 EXCEPT !.host = WithLength(@, length),
                                  !.original = IF Len(c.original) = 0 /\ Len(c.onlyChange) = 0
                                               THEN <<WithLength(c.host, length)>> ELSE @]
             ELSE [c1 EXCEPT !.error = TRUE]

setLength(c, length) ==
    IF length = Len(c.host) THEN c
    ELSE LET c1 == IF Len(c.original) # 0 THEN c
                   ELSE IF Len(c.onlyChange) # 0 THEN LoadOriginal(c)
                   ELSE IF c.mutationBalance # 0 THEN LoadOriginal(c)
                   ELSE c
         IN  IF Len(c1.original) # 0
             THEN IF length = InvalidLength THEN [c1 EXCEPT !.error = TRUE]
                  ELSE [c1 EXCEPT !.host = WithLength(@, length)]
             ELSE [c1 EXCEPT !.error = TRUE]

\* A replaceIn that records a diff whether or not the splice changed anything.
replaceInAlwaysRecording(c, eq, argc, index, count, elements) ==
    LET oldLength == Len(c.host)
        sp        == SpliceCall(c.host, argc, index, count, elements)
        c1        == [c EXCEPT !.host = sp.array, !.returned = ReturnArray(sp.removed)]
    IN  IF Len(c.original) = 0
        THEN _recordChange(c1, arrayDiff(sp.removed, elements, eq,
                                         resolveIndex(index, oldLength, argc > 0)))
        ELSE c1

\* A replaceIn that offsets the diff by the start as given, not as splice resolves it.
replaceInUnresolved(c, eq, argc, index, count, elements) ==
    LET oldLength == Len(c.host)
        sp        == SpliceCall(c.host, argc, index, count, elements)
        c1        == [c EXCEPT !.host = sp.array, !.returned = ReturnArray(sp.removed)]
    IN  IF Len(c.original) = 0 /\ (Len(sp.removed) # 0 \/ oldLength # Len(sp.array))
        THEN _recordChange(c1, arrayDiff(sp.removed, elements, eq, index))
        ELSE c1

replaceIn(c, eq, argc, index, count, elements) ==
    LET oldLength == Len(c.host)
        sp        == SpliceCall(c.host, argc, index, count, elements)
        c1        == [c EXCEPT !.host = sp.array, !.returned = ReturnArray(sp.removed)]
    IN  IF Len(c.original) = 0 /\ (Len(sp.removed) # 0 \/ oldLength # Len(sp.array))
        THEN _recordChange(c1, arrayDiff(sp.removed, elements, eq,
                                         resolveIndex(index, oldLength, argc > 0)))
        ELSE c1

\* A wrapper without the catch clause: the session of a body that threw stays open.
AfterBodyWithoutCancel(c, eq) == IF c.error THEN c ELSE endMutation(c, eq)

\* The overrides of ReactiveArray.prototype, as bodies run on the core `c`.
\* A push that returns the length it found.
pushReturningOldLength(c, eq, items) ==
    LET c1 == replaceIn(c, eq, 3, Whole(Len(c.host)), Whole(0), items)
    IN  [c1 EXCEPT !.returned = ReturnNumber(Len(c.host))]

push(c, eq, items) ==
    LET c1 == replaceIn(c, eq, 3, Whole(Len(c.host)), Whole(0), items)
    IN  [c1 EXCEPT !.returned = ReturnNumber(Len(c1.host))]

unshift(c, eq, items) ==
    LET c1 == replaceIn(c, eq, 3, Whole(0), Whole(0), items)
    IN  [c1 EXCEPT !.returned = ReturnNumber(Len(c1.host))]

\* let [removed] = ...: the first removed element, undefined when there is none.
FirstOf(ret) == ReturnElement(IF Len(ret.array) = 0 THEN Undefined ELSE ret.array[1])

pop(c, eq) ==
    LET c1 == replaceIn(c, eq, 3, Whole(-1), Whole(1), <<>>)
    IN  [c1 EXCEPT !.returned = FirstOf(@)]

shift(c, eq) ==
    LET c1 == replaceIn(c, eq, 3, Whole(0), Whole(1), <<>>)
    IN  [c1 EXCEPT !.returned = FirstOf(@)]

\* splice switches on arguments.length.
splice(c, eq, argc, start, deleteCount, items) ==
    IF argc = 0 THEN replaceIn(c, eq, 0, 0, 0, <<>>)
    ELSE IF argc = 1 THEN replaceIn(c, eq, 1, start, 0, <<>>)
    ELSE IF argc = 2 THEN replaceIn(c, eq, 2, start, deleteCount, <<>>)
    ELSE replaceIn(c, eq, 3, start, deleteCount, items)

\* _arrayProxy: what the wrapper of a method, or the set trap, does once the body
\* has run on the core `c` (after beginMutation).
AfterBody(c, eq) == IF c.error THEN cancelMutation(c) ELSE endMutation(c, eq)

\* _arrayProxy.set
ProxySet(c, eq, key, value) == AfterBody(setAt(beginMutation(c), eq, key, value), eq)

ProxySetLength(c, eq, length) == AfterBody(setLength(beginMutation(c), length), eq)

\* The overrides push, unshift, pop, shift, splice and assignFrom, through the
\* wrapper the proxy's get trap returns.
ProxyReplaceIn(c, eq, argc, index, count, elements) ==
    AfterBody(replaceIn(beginMutation(c), eq, argc, index, count, elements), eq)

----------------------------------------------------------------------------
(* The arrayDiff specification: arrayDiff(from, to, equal) is called on any two   *)
(* arrays of at most MaxLen elements, and on the arrays of the repository's       *)
(* tests; the diff is then applied to `from` and its inverse to `to`.             *)

RECURSIVE SeqsUpTo(_)
SeqsUpTo(n) ==
    IF n = 0 THEN {<<>>}
    ELSE SeqsUpTo(n - 1) \cup [1 .. n -> Elements]

\* tests/Arrays.ts, "Array Diff" and "Array Diff with moved elements"
TestArrays ==
    {<<(<<0, 1, 2, 3, 4>>), (<<2, 3, 5, 7, 9>>)>>, <<(<<1, 2, 3, 4>>), (<<3, 2, 4, 1>>)>>}

RangeIdle ==
    /\ x = EmptyRangeSet /\ y = EmptyRangeSet /\ result = EmptyRangeSet
    /\ xs = {} /\ ys = {} /\ rop = "idle"
    /\ NoHeap

\* The elements of the insertions of a diff built by its constructor.
InsertedElements == {0, 1}

\* new ArrayDiff(removals, insertions) for the array `a`, as the constructor's
\* parameters ask: the removals ascending, at indices of `a` and holding its
\* elements there; the insertions ascending, at most MaxLen - 1 of them, at
\* indices of the array that results.
ValidDiffs(a) ==
    UNION {
        LET removals == SortedSeq(R)
            kept     == Len(a) - Cardinality(R)
        IN  UNION {
                {ArrayDiff(
                    [i \in 1 .. Len(removals) |->
                        [removedAt |-> removals[i], element |-> a[removals[i] + 1]]],
                    [i \in 1 .. Cardinality(J) |->
                        [insertedAt |-> SortedSeq(J)[i], element |-> e[SortedSeq(J)[i]]]])
                 : e \in [J -> InsertedElements]}
                : J \in {K \in SUBSET (0 .. kept + MaxLen - 2) :
                            /\ Cardinality(K) <= MaxLen - 1
                            /\ \A j \in K : j < kept + Cardinality(K)}}
        : R \in SUBSET (0 .. Len(a) - 1)}

\* Either two arrays to be diffed, or an array and a diff built for it.
InitDiff ==
    /\ \/ /\ \/ from \in SeqsUpTo(MaxLen) /\ to \in SeqsUpTo(MaxLen) /\ equal \in EqualNames
             \/ \E t \in TestArrays : from = t[1] /\ to = t[2] /\ equal = "identity"
          /\ diff = ArrayDiff(<<>>, <<>>)
          /\ dstep = "start"
       \/ /\ from \in SeqsUpTo(MaxLen) /\ to = <<>> /\ equal = "identity"
          /\ diff \in ValidDiffs(from)
          /\ dstep = "built"
    /\ applied = <<>> /\ unapplied = <<>>
    /\ RangeIdle
    /\ ReactIdle
    /\ OtherIdle

CallArrayDiff ==
    /\ dstep = "start"
    /\ diff' = arrayDiff(from, to, equal, 0)
    /\ dstep' = "diffed"
    /\ UNCHANGED <<from, to, equal, applied, unapplied, rangeVars, reactVars, otherVars>>

CallApply ==
    /\ dstep = "diffed"
    /\ applied' = apply(diff, from)
    /\ dstep' = "applied"
    /\ UNCHANGED <<from, to, equal, diff, unapplied, rangeVars, reactVars, otherVars>>

CallInverseApply ==
    /\ dstep = "applied"
    /\ unapplied' = apply(inverse(diff), to)
    /\ dstep' = "inverted"
    /\ UNCHANGED <<from, to, equal, diff, applied, rangeVars, reactVars, otherVars>>

\* diff.apply(from) for a diff built by the constructor
ApplyBuilt ==
    /\ dstep = "built"
    /\ applied' = apply(diff, from)
    /\ dstep' = "builtApplied"
    /\ UNCHANGED <<from, to, equal, diff, unapplied, rangeVars, reactVars, otherVars>>

\* diff.inverse.apply(applied)
InverseApplyBuilt ==
    /\ dstep = "builtApplied"
    /\ unapplied' = apply(inverse(diff), applied)
    /\ dstep' = "builtInverted"
    /\ UNCHANGED <<from, to, equal, diff, applied, rangeVars, reactVars, otherVars>>

\* The diff of the state is the one arrayDiff(from, to, equal) returned.
Diffed == dstep \in {"diffed", "applied", "inverted"}

NextDiff ==
    \/ CallArrayDiff \/ CallApply \/ CallInverseApply
    \/ ApplyBuilt \/ InverseApplyBuilt

SpecDiff == InitDiff /\ [][NextDiff]_vars


----------------------------------------------------------------------------
(* The reactive array specification: the callers of one reactive array.  An *)
(* elementary mutation (a property assignment or an overridden method) runs *)
(* to completion inside the proxy; a method with a callback (withMutations, *)
(* sort, reverse, copyWithin, ...) is a frame on `stack`, inside which      *)
(* further mutations run as nested sessions until it returns or throws.     *)

\* The elements given to a reactive array: two numbers of equal parity, so that the
\* coarser predicate equates distinct elements.  Undefined comes in as the holes of
\* a lengthened array.
HostElements == {0, 2}

RECURSIVE HostArrays(_)
HostArrays(n) ==
    IF n = 0 THEN {<<>>}
    ELSE HostArrays(n - 1) \cup [1 .. n -> HostElements]

\* The arguments of push, unshift, splice: at most two items.
Items == HostArrays(1) \cup {<<0, 2>>}

Keys ==
    {[kind |-> "index", index |-> i] : i \in 0 .. MaxHostLen - 1}
        \cup {[kind |-> "name", index |-> 0], [kind |-> "fraction", index |-> 0]}

Core ==
    [host |-> _host, mutationBalance |-> _mutationBalance,
     onlyChange |-> _onlyChange, original |-> _original,
     posted |-> IF stack = <<>> THEN <<>> ELSE posted,
     error |-> FALSE, returned |-> NoReturn]

\* new _ReactiveArrayCore(host, equal): no session, nothing pending.
NewCore(host) ==
    [host |-> host, mutationBalance |-> 0, onlyChange |-> <<>>, original |-> <<>>,
     posted |-> <<>>, error |-> FALSE, returned |-> NoReturn]

\* reactive(elements, equal)
InitReactive ==
    /\ _host \in HostArrays(MaxHostLen)
    /\ _equal \in {"identity", "parity"}
    /\ _mutationBalance = 0
    /\ _onlyChange = <<>> /\ _original = <<>>
    /\ stack = <<>> /\ failing = FALSE
    /\ posted = <<>> /\ before = _host /\ nops = 0
    /\ session = "none" /\ last = NoCall /\ returned = NoReturn
    /\ RangeIdle /\ DiffIdle
    /\ OtherIdle

\* The core after a call, and the history: an outermost session begins where the
\* stack is empty.
Becomes(c) ==
    /\ _host' = c.host
    /\ _mutationBalance' = c.mutationBalance
    /\ _onlyChange' = c.onlyChange
    /\ _original' = c.original
    /\ posted' = c.posted
    /\ before' = IF stack = <<>> THEN _host ELSE before
    /\ UNCHANGED <<_equal, rangeVars, diffVars, otherVars>>

\* An elementary mutation `op` ran to completion in the proxy: `call` is the core
\* it leaves.
Elementary(op, call) ==
    /\ ~failing
    /\ \E c \in {call} :
        /\ Len(c.host) <= MaxHostLen
        /\ Becomes(c)
        /\ last' = IF stack = <<>> THEN op ELSE last
        /\ returned' = IF stack # <<>> THEN returned
                       ELSE IF c.error THEN NoReturn ELSE c.returned
        /\ nops' = IF stack = <<>> \/ nops = 0 THEN 1 ELSE 2
        /\ failing' = (stack # <<>> /\ c.error)
        /\ session' = IF stack # <<>> THEN "open"
                      ELSE IF c.error THEN "thrown" ELSE "ended"
        /\ UNCHANGED stack

\* array[key] = value
SetElement ==
    \E key \in Keys, value \in HostElements :
        Elementary(Call(IF key.kind = "index" THEN "set" ELSE key.kind, 2, key.index, 0, <<value>>),
                   ProxySet(Core, _equal, key, value))

\* array.length = length
SetLength ==
    \E length \in (0 .. MaxHostLen) \cup {InvalidLength} :
        Elementary(Call("length", 1, length, 0, <<>>),
                   ProxySetLength(Core, _equal, length))

Push ==
    \E items \in Items :
        Elementary(Call("push", Len(items), 0, 0, items),
                   AfterBody(push(beginMutation(Core), _equal, items), _equal))

Unshift ==
    \E items \in Items :
        Elementary(Call("unshift", Len(items), 0, 0, items),
                   AfterBody(unshift(beginMutation(Core), _equal, items), _equal))

Pop ==
    Elementary(Call("pop", 0, 0, 0, <<>>), AfterBody(pop(beginMutation(Core), _equal), _equal))

Shift ==
    Elementary(Call("shift", 0, 0, 0, <<>>),
               AfterBody(shift(beginMutation(Core), _equal), _equal))

\* splice(), splice(start), splice(start, deleteCount), splice(start, deleteCount, ...items)
\* with the start and the count in halves: negative, past the length, fractional.
SpliceArguments ==
    {<<0, 0, 0, <<>>>>}
        \cup {<<1, Whole(i), 0, <<>>>> : i \in {-1, 0, 1, MaxHostLen + 1}}
        \cup {<<1, 1, 0, <<>>>>}
        \cup {<<2, Whole(i), Whole(n), <<>>>> : i \in -1 .. 1, n \in {-1, 1, 2}}
        \cup {<<2, 1, 3, <<>>>>, <<2, -1, 1, <<>>>>}
        \cup {<<3, Whole(a[1]), Whole(a[2]), a[3]>> :
                a \in (0 .. MaxHostLen - 1) \X (0 .. 2) \X (HostArrays(1) \ {<<>>})}

Splice_ ==
    \E a \in SpliceArguments :
        Elementary(Call("splice", a[1], a[2], a[3], a[4]),
                   AfterBody(splice(beginMutation(Core), _equal, a[1], a[2], a[3], a[4]),
                             _equal))

\* ReactiveArray.assignFrom(other)
AssignFromArray ==
    \E other \in HostArrays(2) :
        Elementary(Call("assignFrom", 1, 0, 0, other),
                   ProxyReplaceIn(Core, _equal, 3, Whole(0), Whole(Len(_host)), other))

\* A wrapped method with a body of its own is called: beginMutation.
CallMethod ==
    /\ ~failing
    /\ Len(stack) < MaxDepth
    /\ Becomes(beginMutation(Core))
    /\ stack' = Append(stack, "method")
    /\ nops' = IF stack = <<>> THEN 0 ELSE nops
    /\ session' = "open"
    /\ last' = IF stack = <<>> THEN Call("method", 0, 0, 0, <<>>) ELSE last
    /\ returned' = IF stack = <<>> THEN NoReturn ELSE returned
    /\ UNCHANGED failing

\* The body on top of the stack returns: endMutation(this).
ReturnMethod ==
    /\ ~failing
    /\ stack # <<>>
    /\ Becomes(endMutation(Core, _equal))
    /\ stack' = SubSeq(stack, 1, Len(stack) - 1)
    /\ session' = IF Len(stack) = 1 THEN "ended" ELSE "open"
    /\ UNCHANGED <<failing, nops, last, returned>>

\* The body on top of the stack throws (a comparator, a callback).
Raise ==
    /\ ~failing
    /\ stack # <<>>
    /\ failing' = TRUE
    /\ UNCHANGED <<coreVars, stack, posted, before, nops, session, last, returned,
                   rangeVars, diffVars, otherVars>>

\* The body on top of the stack catches the error of a mutation it made.
Catch ==
    /\ failing
    /\ stack # <<>>
    /\ failing' = FALSE
    /\ UNCHANGED <<coreVars, stack, posted, before, nops, session, last, returned,
                   rangeVars, diffVars, otherVars>>

\* The wrapper catches the error of its body: cancelMutation, and the error goes on
\* to the caller.
Unwind ==
    /\ failing
    /\ stack # <<>>
    /\ Becomes(cancelMutation(Core))
    /\ stack' = SubSeq(stack, 1, Len(stack) - 1)
    /\ failing' = (Len(stack) > 1)
    /\ session' = IF Len(stack) = 1 THEN "thrown" ELSE "open"
    /\ UNCHANGED <<nops, last, returned>>

NextReactive ==
    \/ SetElement \/ SetLength
    \/ Push \/ Unshift \/ Pop \/ Shift \/ Splice_ \/ AssignFromArray
    \/ CallMethod \/ ReturnMethod
    \/ Raise \/ Catch \/ Unwind

SpecReactive == InitReactive /\ [][NextReactive]_vars

----------------------------------------------------------------------------
(* The core called without the proxy: setAt, setLength and replaceIn are public
   methods of _ReactiveArrayCore, and here they are called on a core that has no
   session open, with no beginMutation before and no endMutation after. *)

DirectCalls == {"setAt", "setLength", "replaceIn"}

\* A public method of the core was called at balance 0: `call` is the core it
\* leaves, `failing` tells whether it threw.
Direct(name, call) ==
    /\ _mutationBalance = 0 /\ stack = <<>>
    /\ \E c \in {call} :
        /\ Len(c.host) <= MaxHostLen
        /\ Becomes(c)
        /\ failing' = c.error
        /\ session' = name
        /\ UNCHANGED <<stack, nops, last, returned>>

\* core.setAt(key, value)
CoreSetAt ==
    \E key \in Keys, value \in HostElements :
        Direct("setAt", setAt(Core, _equal, key, value))

\* core.setLength(length)
CoreSetLength ==
    \E length \in (0 .. MaxHostLen) \cup {InvalidLength} :
        Direct("setLength", setLength(Core, length))

\* core.replaceIn(), core.replaceIn(index), ... as splice passes them
CoreReplaceIn ==
    \E a \in SpliceArguments :
        Direct("replaceIn", replaceIn(Core, _equal, a[1], a[2], a[3], a[4]))

NextCore == CoreSetAt \/ CoreSetLength \/ CoreReplaceIn

SpecCore == InitReactive /\ [][NextCore]_vars

----------------------------------------------------------------------------
(* Observers that mutate the array.  endMutation calls post, and post calls the   *)
(* observers one after the other, each inside a try whose catch logs the error    *)
(* (Notification.ts); an observer may call the array.  A frame "post" on `stack`  *)
(* is a notification being delivered: the session that posted it has cleared its  *)
(* state, and what the observers call runs above that frame.  Here `posted` and   *)
(* `before` are those of the outermost session begun last, by whomever.           *)

\* A notification is being delivered: its observers are running.
Delivering == stack # <<>> /\ stack[Len(stack)] = "post"

\* The notification being delivered was posted by a session that an observer of
\* an earlier notification began.
DeliveringToObserved ==
    /\ Delivering
    /\ \E i \in 1 .. Len(stack) - 1 : stack[i] = "post"

\* The core as a call finds it; a session that begins at balance 0 has posted
\* nothing yet.
CoreFound ==
    [host |-> _host, mutationBalance |-> _mutationBalance,
     onlyChange |-> _onlyChange, original |-> _original,
     posted |-> IF _mutationBalance = 0 THEN <<>> ELSE posted,
     error |-> FALSE, returned |-> NoReturn]

\* The core after a call that leaves the frames `frames` running: when the call
\* brought the balance to 0 and posted, post is called and its observers run.
Delivers(c, frames) ==
    /\ Len(c.host) <= MaxHostLen
    /\ _host' = c.host
    /\ _mutationBalance' = c.mutationBalance
    /\ _onlyChange' = c.onlyChange
    /\ _original' = c.original
    /\ posted' = c.posted
    /\ before' = IF _mutationBalance = 0 THEN _host ELSE before
    /\ stack' = IF c.mutationBalance = 0 /\ c.posted # <<>>
                THEN Append(frames, "post") ELSE frames
    /\ Len(stack') <= MaxDepth
    /\ session' = IF c.mutationBalance # 0 THEN "open"
                  ELSE IF c.error THEN "thrown" ELSE "ended"
    /\ UNCHANGED <<_equal, failing, nops, last, returned, rangeVars, diffVars, otherVars>>

\* array[key] = value, by the program, by the body of a method or by an observer
ObservedSetElement ==
    \E key \in Keys, value \in HostElements :
        Delivers(ProxySet(CoreFound, _equal, key, value), stack)

\* array.length = length
ObservedSetLength ==
    \E length \in (0 .. MaxHostLen) \cup {InvalidLength} :
        Delivers(ProxySetLength(CoreFound, _equal, length), stack)

\* array.splice(...)
ObservedSplice ==
    \E a \in SpliceArguments :
        Delivers(AfterBody(splice(beginMutation(CoreFound), _equal, a[1], a[2], a[3], a[4]),
                           _equal),
                 stack)

\* A wrapped method with a body of its own is called: beginMutation.
ObservedCallMethod ==
    /\ Len(stack) < MaxDepth
    /\ Delivers(beginMutation(CoreFound), Append(stack, "method"))

\* The body on top of the stack returns: endMutation(this).
ObservedReturnMethod ==
    /\ stack # <<>> /\ stack[Len(stack)] = "method"
    /\ Delivers(endMutation(CoreFound, _equal), SubSeq(stack, 1, Len(stack) - 1))

\* The observers of the notification have run, each to its end or to an error that
\* post logs: post returns, and endMutation and the wrapper return after it.
PostReturns ==
    /\ Delivering
    /\ stack' = SubSeq(stack, 1, Len(stack) - 1)
    /\ UNCHANGED <<coreVars, failing, posted, before, nops, session, last, returned,
                   rangeVars, diffVars, otherVars>>

NextObserved ==
    \/ ObservedSetElement \/ ObservedSetLength \/ ObservedSplice
    \/ ObservedCallMethod \/ ObservedReturnMethod
    \/ PostReturns

SpecObserved == InitReactive /\ [][NextObserved]_vars

----------------------------------------------------------------------------
(* Cancelled sessions.  The callers of SpecReactive, with a history of the        *)
(* cancellations: here `session` is a record that tells where the outermost       *)
(* session is (now), whether a cancelMutation of this outermost session left the  *)
(* balance above 0 (innerCancelled), and whether the outermost session before     *)
(* this one was cancelled (afterCancelled).                                       *)

Session(now, innerCancelled, afterCancelled) ==
    [now |-> now, innerCancelled |-> innerCancelled, afterCancelled |-> afterCancelled]

\* The outermost session that begins in this step.
Begun(now) == Session(now, FALSE, session.now = "thrown")

InitCancel ==
    /\ _host \in HostArrays(MaxHostLen)
    /\ _equal \in {"identity", "parity"}
    /\ _mutationBalance = 0
    /\ _onlyChange = <<>> /\ _original = <<>>
    /\ stack = <<>> /\ failing = FALSE
    /\ posted = <<>> /\ before = _host /\ nops = 0
    /\ session = Session("none", FALSE, FALSE) /\ last = NoCall /\ returned = NoReturn
    /\ RangeIdle /\ DiffIdle
    /\ OtherIdle

\* array[key] = value, array.length = length, array.shift(), array.push(item):
\* the cores these calls leave, each through its wrapper.
WrappedCalls ==
    {ProxySet(Core, _equal, key, value) : key \in Keys, value \in HostElements}
        \cup {ProxySetLength(Core, _equal, length) :
                length \in (0 .. MaxHostLen) \cup {InvalidLength}}
        \cup {AfterBody(shift(beginMutation(Core), _equal), _equal)}
        \cup {AfterBody(push(beginMutation(Core), _equal, <<e>>), _equal) : e \in HostElements}

\* An elementary mutation ran in the proxy, to its end or to an error; an error
\* inside a session went through cancelMutation at a balance above 0.
WrappedCall ==
    /\ ~failing
    /\ \E c \in WrappedCalls :
        /\ Len(c.host) <= MaxHostLen
        /\ Becomes(c)
        /\ nops' = IF stack = <<>> \/ nops = 0 THEN 1 ELSE 2
        /\ failing' = (stack # <<>> /\ c.error)
        /\ session' = IF stack = <<>> THEN Begun(IF c.error THEN "thrown" ELSE "ended")
                      ELSE IF c.error THEN [session EXCEPT !.innerCancelled = TRUE]
                      ELSE session
        /\ UNCHANGED <<stack, last, returned>>

\* A wrapped method with a body of its own is called: beginMutation.
BodyBegins ==
    /\ ~failing
    /\ Len(stack) < MaxDepth
    /\ Becomes(beginMutation(Core))
    /\ stack' = Append(stack, "method")
    /\ nops' = IF stack = <<>> THEN 0 ELSE nops
    /\ session' = IF stack = <<>> THEN Begun("open") ELSE session
    /\ UNCHANGED <<failing, last, returned>>

\* The body on top of the stack returns: endMutation(this).
BodyReturns ==
    /\ ~failing
    /\ stack # <<>>
    /\ Becomes(endMutation(Core, _equal))
    /\ stack' = SubSeq(stack, 1, Len(stack) - 1)
    /\ session' = [session EXCEPT !.now = IF Len(stack) = 1 THEN "ended" ELSE "open"]
    /\ UNCHANGED <<failing, nops, last, returned>>

\* The body on top of the stack throws.
BodyThrows ==
    /\ ~failing
    /\ stack # <<>>
    /\ failing' = TRUE
    /\ UNCHANGED <<coreVars, stack, posted, before, nops, session, last, returned,
                   rangeVars, diffVars, otherVars>>

\* The body on top of the stack catches the error of an operation it called.
BodyCatches ==
    /\ failing
    /\ stack # <<>>
    /\ failing' = FALSE
    /\ UNCHANGED <<coreVars, stack, posted, before, nops, session, last, returned,
                   rangeVars, diffVars, otherVars>>

\* The wrapper catches the error of its body: cancelMutation, and the error goes on
\* to the caller.
BodyCancelled ==
    /\ failing
    /\ stack # <<>>
    /\ Becomes(cancelMutation(Core))
    /\ stack' = SubSeq(stack, 1, Len(stack) - 1)
    /\ failing' = (Len(stack) > 1)
    /\ session' = IF Len(stack) = 1 THEN [session EXCEPT !.now = "thrown"]
                  ELSE [session EXCEPT !.innerCancelled = TRUE]
    /\ UNCHANGED <<nops, last, returned>>

NextCancel ==
    \/ WrappedCall
    \/ BodyBegins \/ BodyReturns
    \/ BodyThrows \/ BodyCatches \/ BodyCancelled

SpecCancel == InitCancel /\ [][NextCancel]_vars

----------------------------------------------------------------------------
(* async.ts: the AsyncBarrier.  JavaScript runs each callback to completion, so  *)
(* a step of the model is one synchronous run: a call of concurrent() or         *)
(* exclusive(), the continuation of an await, or one pass of the do-while of     *)
(* _dispatchPoolWorks.  The body of a work is called synchronously by            *)
(* _executeWork and may itself submit works before its first await, also between *)
(* two passes of that loop.                                                      *)

\* At most MaxWorks works are submitted to the barrier.
MaxWorks == 3

\* concurrent() executing the work at once although works wait in the pool.
concurrentPastPool(currentWorks, workPool) == currentWorks >= 0

\* exclusive() executing the work at once while concurrent works execute.
exclusiveWhileReading(currentWorks, workPool) == currentWorks >= 0 /\ Len(workPool) = 0

\* A finally block that schedules the dispatch after an exclusive work only.
FinallyTickAfterExclusive(currentWorks, pendingTicks, isConcurrent) ==
    [currentWorks |-> IF isConcurrent THEN currentWorks - 1 ELSE 0,
     ticks |-> IF isConcurrent THEN pendingTicks ELSE pendingTicks + 1]

\* AsyncBarrier.concurrent: the test that executes the work at once.
concurrent(currentWorks, workPool) == currentWorks >= 0 /\ Len(workPool) = 0

\* AsyncBarrier.exclusive: the test that executes the work at once.
exclusive(currentWorks, workPool) == currentWorks = 0 /\ Len(workPool) = 0

\* AsyncBarrier._executeWork up to the call of the body: _currentWorks.
_executeWork(currentWorks, isConcurrent) ==
    IF isConcurrent THEN currentWorks + 1 ELSE -1

\* AsyncBarrier._executeWork, the finally block: _currentWorks, and one more
\* nextTick callback.
Finally(currentWorks, pendingTicks, isConcurrent) ==
    [currentWorks |-> IF isConcurrent THEN currentWorks - 1 ELSE 0,
     ticks |-> pendingTicks + 1]

\* AsyncBarrier._dispatchPoolWorks: the two tests that return at once.
DispatchReturns(currentWorks, workPool) == currentWorks # 0 \/ Len(workPool) = 0

\* A work as submitted: `pooled` says that _addPoolWork took it, `inGap` that it
\* was submitted while nothing was executing and the pool awaited its dispatch.
\* outcome is how the promise of the body settled, promise the state of the
\* promise that concurrent() or exclusive() returned.
Work(isConcurrent, state, pooled, inGap) ==
    [concurrent |-> isConcurrent, state |-> state, pooled |-> pooled, inGap |-> inGap,
     outcome |-> "pending", promise |-> "pending"]

InitBarrier ==
    /\ AsyncIdle
    /\ RefIdle
    /\ RangeIdle /\ DiffIdle /\ ReactIdle

\* barrier.concurrent(body) or barrier.exclusive(body)
Submit ==
    \E isConcurrent \in BOOLEAN :
        LET executes == IF isConcurrent THEN concurrent(_currentWorks, _workPool)
                        ELSE exclusive(_currentWorks, _workPool)
            n == Len(works) + 1
        IN  /\ Len(works) < MaxWorks
            /\ IF executes
               THEN /\ _currentWorks' = _executeWork(_currentWorks, isConcurrent)
                    /\ works' = Append(works, Work(isConcurrent, "executing", FALSE, FALSE))
                    /\ started' = Append(started, n)
                    /\ UNCHANGED _workPool
               ELSE /\ _workPool' = Append(_workPool, n)
                    /\ works' = Append(works, Work(isConcurrent, "queued", TRUE,
                                                   _currentWorks = 0))
                    /\ UNCHANGED <<_currentWorks, started>>
            /\ UNCHANGED <<ticks, loop, refVars, rangeVars, diffVars, reactVars>>

\* The promise of the body of work i settles: `await body()` will go on; for a
\* work of the pool, body().then(resolve, reject) settles the returned promise.
BodySettles(i) ==
    /\ i <= Len(works) /\ works[i].state = "executing"
    /\ loop = <<>>
    /\ \E outcome \in {"fulfilled", "rejected"} :
           works' = [works EXCEPT ![i].state = "settled", ![i].outcome = outcome,
                                  ![i].promise = IF works[i].pooled THEN outcome ELSE @]
    /\ UNCHANGED <<_currentWorks, _workPool, started, ticks, loop,
                   refVars, rangeVars, diffVars, reactVars>>

\* _executeWork of work i goes on after the await: the finally block, and the
\* async function returns or throws what the body did.
AfterAwait(i) ==
    /\ i <= Len(works) /\ works[i].state = "settled"
    /\ loop = <<>>
    /\ LET f == Finally(_currentWorks, ticks, works[i].concurrent)
       IN  /\ _currentWorks' = f.currentWorks
           /\ ticks' = f.ticks
    /\ works' = [works EXCEPT ![i].state = "finished",
                              ![i].promise = IF works[i].pooled THEN @ ELSE works[i].outcome]
    /\ UNCHANGED <<_workPool, started, loop, refVars, rangeVars, diffVars, reactVars>>

\* work = this._workPool.shift(); this._executeWork(work.concurrent, ...)
ShiftAndExecute ==
    LET i == Head(_workPool) IN
    /\ _workPool' = Tail(_workPool)
    /\ _currentWorks' = _executeWork(_currentWorks, works[i].concurrent)
    /\ works' = [works EXCEPT ![i].state = "executing"]
    /\ started' = Append(started, i)
    /\ loop' = <<works[i].concurrent>>

\* A nextTick callback runs _dispatchPoolWorks, up to the end of the first pass.
Dispatch ==
    /\ ticks > 0 /\ loop = <<>>
    /\ ticks' = ticks - 1
    /\ IF DispatchReturns(_currentWorks, _workPool)
       THEN UNCHANGED <<_currentWorks, _workPool, works, started, loop>>
       ELSE ShiftAndExecute
    /\ UNCHANGED <<refVars, rangeVars, diffVars, reactVars>>

\* while (work.concurrent && this._workPool.length !== 0 && this._workPool[0].concurrent)
LoopTest ==
    /\ loop # <<>>
    /\ IF loop[1] /\ Len(_workPool) # 0 /\ works[Head(_workPool)].concurrent
       THEN ShiftAndExecute
       ELSE loop' = <<>> /\ UNCHANGED <<_currentWorks, _workPool, works, started>>
    /\ UNCHANGED <<ticks, refVars, rangeVars, diffVars, reactVars>>

NextBarrier ==
    \/ Submit
    \/ \E i \in 1 .. MaxWorks : BodySettles(i)
    \/ \E i \in 1 .. MaxWorks : AfterAwait(i)
    \/ Dispatch
    \/ LoopTest

SpecBarrier == InitBarrier /\ [][NextBarrier]_vars

\* The event loop runs every callback it holds, and the promise of every body
\* settles.
FairBarrier ==
    /\ WF_vars(Dispatch)
    /\ WF_vars(LoopTest)
    /\ \A i \in 1 .. MaxWorks : WF_vars(BodySettles(i)) /\ WF_vars(AfterAwait(i))

SpecBarrierFair == SpecBarrier /\ FairBarrier

----------------------------------------------------------------------------
(* RefCounted.ts: one RefCounted object.  Its callers retain, release and read   *)
(* it in any order; the finalizer passed to the constructor is called by         *)
(* release, may itself call the object, and returns or throws.                   *)

\* The callers retain the object at most MaxRetains times.
MaxRetains == 4

\* The values a RefCounted object is made for.
RefValues == {0, 1}

\* What a method did: the fields it left, and whether it threw.
Returned(r) == [ref |-> r, threw |-> FALSE]
Threw(r)    == [ref |-> r, threw |-> TRUE]

\* get value
GetValue(r) == IF r.count = 0 THEN Threw(r) ELSE Returned(r)

\* RefCounted.retain
retain(r) ==
    IF r.count = 0 THEN Threw(r) ELSE Returned([r EXCEPT !.count = @ + 1])

\* A release with no test of the count.
releaseUnchecked(r) ==
    LET r1 == [r EXCEPT !.count = @ - 1]
    IN  IF r1.count # 0 THEN Returned(r1) ELSE Returned([r1 EXCEPT !.releasing = TRUE])

\* RefCounted.release up to the call of this.finalize(): releasing is true in the
\* fields returned when the finalizer is to be called.
release(r) ==
    IF r.count = 0 THEN Threw(r)
    ELSE LET r1 == [r EXCEPT !.count = @ - 1]
         IN  IF r1.count # 0 THEN Returned(r1)
             ELSE Returned([r1 EXCEPT !.releasing = TRUE])

\* RefCounted.release, the finally block.
Released(r) == [r EXCEPT !.value = <<>>, !.releasing = FALSE]

\* RefCounted.finalize called by hand: it throws unless release is calling it.
finalize(r) == IF ~r.releasing THEN Threw(r) ELSE Returned(r)

InitRef ==
    /\ \E v \in RefValues : ref = [value |-> <<v>>, count |-> 1, releasing |-> FALSE]
    /\ finalized = 0 /\ retains = 0 /\ releases = 0
    /\ rcall = [op |-> "new", threw |-> FALSE]
    /\ AsyncIdle
    /\ RangeIdle /\ DiffIdle /\ ReactIdle

\* object.value, read by a caller or by the finalizer
ReadValue ==
    /\ ref' = GetValue(ref).ref
    /\ rcall' = [op |-> "value", threw |-> GetValue(ref).threw]
    /\ UNCHANGED <<finalized, retains, releases, asyncVars, rangeVars, diffVars, reactVars>>

\* object.retain(), called by a caller or by the finalizer
Retain ==
    /\ retains < MaxRetains
    /\ ref' = retain(ref).ref
    /\ rcall' = [op |-> "retain", threw |-> retain(ref).threw]
    /\ retains' = IF retain(ref).threw THEN retains ELSE retains + 1
    /\ UNCHANGED <<finalized, releases, asyncVars, rangeVars, diffVars, reactVars>>

\* object.release(), called by a caller or by the finalizer: up to the return, the
\* throw or the call of the finalizer.
Release ==
    /\ ref' = release(ref).ref
    /\ releases' = IF release(ref).threw THEN releases ELSE releases + 1
    /\ IF ref'.releasing /\ ~ref.releasing
       THEN finalized' = finalized + 1 /\ rcall' = [op |-> "finalizer", threw |-> FALSE]
       ELSE finalized' = finalized /\ rcall' = [op |-> "release", threw |-> release(ref).threw]
    /\ UNCHANGED <<retains, asyncVars, rangeVars, diffVars, reactVars>>

\* The finalizer returns or throws, and release goes through its finally block.
FinalizerEnds ==
    /\ ref.releasing
    /\ ref' = Released(ref)
    /\ \E threw \in BOOLEAN : rcall' = [op |-> "release", threw |-> threw]
    /\ UNCHANGED <<finalized, retains, releases, asyncVars, rangeVars, diffVars, reactVars>>

\* object.finalize() called by a caller, not by release.
CallFinalize ==
    /\ ~ref.releasing
    /\ ref' = finalize(ref).ref
    /\ rcall' = [op |-> "finalize", threw |-> finalize(ref).threw]
    /\ UNCHANGED <<finalized, retains, releases, asyncVars, rangeVars, diffVars, reactVars>>

NextRef == ReadValue \/ Retain \/ Release \/ FinalizerEnds \/ CallFinalize

SpecRef == InitRef /\ [][NextRef]_vars

----------------------------------------------------------------------------
(* RangeSet claims. *)

\* The bounds are of even length and strictly increasing: the ranges are sorted,
\* each has start < end, and no two overlap or touch.
StrictlyIncreasing(b) ==
    /\ Len(b) % 2 = 0
    /\ \A i \in 1 .. Len(b) - 1 : b[i] < b[i + 1]

\* C6: after any sequence of mutating calls on a RangeSet constructed empty or from
\* one range, its bounds are of even length and strictly increasing (sorted ranges,
\* start < end, no overlap, no two adjacent ranges).
C6_RangesSortedDisjoint == StrictlyIncreasing(x.bounds)

\* A set of three ranges or more, as a remove, a toggle or a shift left it.
C6_Witness ==
    /\ rop \in {"removeSpanIn", "insertGapIn", "toggle", "remove"}
    /\ Len(x.bounds) >= 6

\* C7: after any sequence of mutating calls the cached count of the set equals the
\* sum of (end - start) over its ranges, and so does the count of every set a
\* combinator returns.
C7_CountIsSum ==
    /\ x.count = SumRanges(x.bounds, 0)
    /\ rop \in Combinators => result.count = SumRanges(result.bounds, 0)

\* A union that extended a partially covered range.
C7_Witness ==
    /\ rop = "union"
    /\ Len(result.bounds) = 2
    /\ Len(x.bounds) >= 4 /\ Len(y.bounds) >= 4
    /\ result.count > x.count /\ result.count > y.count

\* C8: the RangeSet stands for the set of integers xs that insert (union with the
\* interval), remove (difference) and toggle (symmetric difference) produce; its
\* iteration yields the members of xs in ascending order, and contains(s, e) is true
\* exactly when s < e and every integer of [s, e) is a member.
C8_RefinesIntegerSet ==
    /\ MembersOf(x) = xs
    /\ Iterate(x.bounds, 0) = SortedSeq(xs)
    /\ \A a \in Bounds \X Bounds :
           contains(x, a[1], a[2]) <=> (a[1] < a[2] /\ Interval(a[1], a[2]) \subseteq xs)

\* insert(5, 8) and then insert(3, 5) leave the one range [3, 8) with count 5.
C8_Witness ==
    /\ rop = "insert"
    /\ x = [bounds |-> <<3, 8>>, count |-> 5]
    /\ contains(x, 4, 6) /\ ~contains(x, 2, 4)

\* C10: each combinator returns the set-theoretic union, intersection, difference
\* or symmetric difference of the operands, as a valid RangeSet (strictly increasing
\* bounds, count equal to the number of members).
C10_CombinatorsAreSetOperations ==
    rop \in Combinators =>
        /\ StrictlyIncreasing(result.bounds)
        /\ result.count = Cardinality(MembersOf(result))
        /\ rop = "union" => MembersOf(result) = xs \cup ys
        /\ rop = "intersection" => MembersOf(result) = xs \cap ys
        /\ rop = "difference" => MembersOf(result) = xs \ ys
        /\ rop = "symmetricDifference" => MembersOf(result) = (xs \ ys) \cup (ys \ xs)

\* A symmetric difference of two sets of two ranges each that overlap.
C10_Witness ==
    /\ rop = "symmetricDifference"
    /\ Len(x.bounds) >= 4 /\ Len(y.bounds) >= 4
    /\ xs \cap ys # {} /\ xs \ ys # {} /\ ys \ xs # {}
    /\ Len(result.bounds) >= 4

\* C11: for the RangeSet x and the operand y of a combinator call, the union counts
\* at least as many members as x and as y; every member of the intersection is a
\* member of x and of y; and the symmetric difference isEqual the difference of
\* the union and the intersection.
C11_CombinatorLaws ==
    /\ rop = "union" => result.count >= x.count /\ result.count >= y.count
    /\ rop = "intersection" =>
           /\ MembersOf(result) \subseteq MembersOf(x)
           /\ MembersOf(result) \subseteq MembersOf(y)
           /\ \A i \in MembersOf(result) : contains(x, i, i + 1) /\ contains(y, i, i + 1)
    /\ rop = "symmetricDifference" =>
           isEqual(result, difference(union(x, y), intersection(x, y)))

\* A symmetric difference of two overlapping sets, neither inside the other.
C11_Witness ==
    /\ rop = "symmetricDifference"
    /\ intersection(x, y).count > 0
    /\ x.count > intersection(x, y).count /\ y.count > intersection(x, y).count
    /\ isEqual(result, difference(union(x, y), intersection(x, y)))

\* The members left by cutting [start, end) out of S and closing the gap.
SpanRemoved(S, start, end) ==
    {i \in S : i < start} \cup {i - (end - start) : i \in {j \in S : j >= end}}

\* The members left by opening the gap [start, end) in S.
GapInserted(S, start, end) ==
    {i \in S : i < start} \cup {i + (end - start) : i \in {j \in S : j >= start}}

\* C12: for start < end, removeSpanIn(start, end) on the set x leaves exactly the
\* members below start and the members at or above end moved left by end - start,
\* as a valid RangeSet (ranges that meet at start after the shift are one range).
C12_RemoveSpanInShifts ==
    rop \notin Combinators =>
        \A a \in Args :
            a[1] < a[2] =>
                LET r == removeSpanIn(x, a[1], a[2]) IN
                /\ MembersOf(r) = SpanRemoved(MembersOf(x), a[1], a[2])
                /\ StrictlyIncreasing(r.bounds)
                /\ r.count = Cardinality(MembersOf(r))

\* After a removeSpanIn, a set of which the gap between the first two ranges can be
\* cut out, so that the two become one range.
C12_Witness ==
    /\ rop = "removeSpanIn"
    /\ Len(x.bounds) >= 4
    /\ Len(removeSpanIn(x, x.bounds[2], x.bounds[3]).bounds) = Len(x.bounds) - 2
    /\ removeSpanIn(x, x.bounds[2], x.bounds[3]).count = x.count

\* C13: for start < end, insertGapIn(start, end) on the set x leaves exactly the
\* members below start and the members at or above start moved right by
\* end - start; no integer of [start, end) is a member, and the count is unchanged.
C13_InsertGapInShifts ==
    rop \notin Combinators =>
        \A a \in Args :
            a[1] < a[2] =>
                LET r == insertGapIn(x, a[1], a[2]) IN
                /\ MembersOf(r) = GapInserted(MembersOf(x), a[1], a[2])
                /\ MembersOf(r) \cap Interval(a[1], a[2]) = {}
                /\ r.count = x.count
                /\ StrictlyIncreasing(r.bounds)

\* After an insertGapIn, a set with a range that a gap can split in two.
C13_Witness ==
    /\ rop = "insertGapIn"
    /\ Len(x.bounds) >= 2
    /\ x.bounds[2] - x.bounds[1] >= 2
    /\ Len(insertGapIn(x, x.bounds[1] + 1, x.bounds[1] + 3).bounds) = Len(x.bounds) + 2

\* C14: for start < end, insertSpanIn(start, end) on the set x leaves exactly the
\* members below start, the span [start, end) and the members at or above start
\* moved right by end - start; the count grows by end - start; and removeSpanIn
\* of the same span gives x back, bounds and count.
C14_InsertSpanInThenRemove ==
    rop \notin Combinators =>
        \A a \in Args :
            a[1] < a[2] =>
                LET r == insertSpanIn(x, a[1], a[2]) IN
                /\ MembersOf(r) = GapInserted(MembersOf(x), a[1], a[2])
                                      \cup Interval(a[1], a[2])
                /\ r.count = x.count + (a[2] - a[1])
                /\ removeSpanIn(r, a[1], a[2]) = x

\* After an insertSpanIn that joined the span to a range, the set from which
\* removeSpanIn of that span takes it away again.
C14_Witness ==
    /\ rop = "insertSpanIn"
    /\ Len(x.bounds) = 2 /\ x.count >= 3
    /\ \E a \in Args :
           /\ a[1] < a[2] /\ x.bounds[1] < a[1] /\ a[2] < x.bounds[2]
           /\ removeSpanIn(x, a[1], a[2]).count = x.count - (a[2] - a[1])

----------------------------------------------------------------------------
(* arrayDiff claims. *)

\* s and t have the same length and cmp(s[i], t[i]) holds at every index.
SameUnder(cmp, s, t) ==
    /\ Len(s) = Len(t)
    /\ \A i \in 1 .. Len(s) : Equal(cmp, s[i], t[i])

\* C1 as stated, for the predicates that are equivalence relations (identity, equal
\* parity): diff.apply(from) is `to` and diff.inverse.apply(to) is `from`, element
\* for element.
C1_RoundTripIdentical ==
    (dstep = "inverted" /\ equal \in {"identity", "parity"}) =>
        applied = to /\ unapplied = from

\* C1 as amended: diff.apply(from) has the length of `to` and each of its elements is
\* equal under the predicate to the element of `to` at its index;
\* diff.inverse.apply(to) has the length of `from` and each element of `from` is equal
\* under the predicate to its element at that index; and when the predicate is
\* identity both are `to` and `from` themselves.
C1_RoundTripUnderEqual ==
    dstep = "inverted" =>
        /\ SameUnder(equal, applied, to)
        /\ SameUnder(equal, from, unapplied)
        /\ equal = "identity" => applied = to /\ unapplied = from

\* The round trip of the test "Array Diff".
C1_Witness ==
    /\ dstep = "inverted"
    /\ from = <<0, 1, 2, 3, 4>> /\ to = <<2, 3, 5, 7, 9>>
    /\ applied = to /\ unapplied = from

\* The length of a longest common subsequence of a[i..] and b[j..] under cmp.
RECURSIVE LCS(_, _, _, _, _)
LCS(a, b, cmp, i, j) ==
    IF i > Len(a) \/ j > Len(b) THEN 0
    ELSE LET skipA == LCS(a, b, cmp, i + 1, j)
             skipB == LCS(a, b, cmp, i, j + 1)
             both  == IF Equal(cmp, a[i], b[j]) THEN 1 + LCS(a, b, cmp, i + 1, j + 1) ELSE 0
         IN  Max(both, Max(skipA, skipB))

IndicesOf(changes, key) == [i \in 1 .. Len(changes) |-> changes[i][key]]

\* C9: the diff is a shortest edit script: it has |from| + |to| - 2 LCS(from, to)
\* removals and insertions; [0,1,2,3,4] -> [2,3,5,7,9] gives removals at 0, 1, 4 and
\* insertions at 2, 3, 4; [1,2,3,4] -> [3,2,4,1] gives at most two of each; and an
\* element that moved ([0,1,2] -> [1,2,0]) is one removal and one insertion.
C9_ShortestEditScript ==
    Diffed =>
        /\ Len(diff.removals) + Len(diff.insertions)
               = Len(from) + Len(to) - 2 * LCS(from, to, equal, 1, 1)
        /\ (from = <<0, 1, 2, 3, 4>> /\ to = <<2, 3, 5, 7, 9>>) =>
               /\ IndicesOf(diff.removals, "removedAt") = <<0, 1, 4>>
               /\ IndicesOf(diff.insertions, "insertedAt") = <<2, 3, 4>>
        /\ (from = <<1, 2, 3, 4>> /\ to = <<3, 2, 4, 1>>) =>
               Len(diff.removals) <= 2 /\ Len(diff.insertions) <= 2
        /\ (from = <<0, 1, 2>> /\ to = <<1, 2, 0>> /\ equal = "identity") =>
               diff = ArrayDiff(<<[removedAt |-> 0, element |-> 0]>>,
                                <<[insertedAt |-> 2, element |-> 0]>>)

\* The diff of the test "Array Diff with moved elements".
C9_Witness ==
    /\ dstep = "diffed"
    /\ from = <<1, 2, 3, 4>> /\ to = <<3, 2, 4, 1>>
    /\ Len(diff.removals) = 2 /\ Len(diff.insertions) = 2

----------------------------------------------------------------------------
(* Reactive array claims. *)

\* A diff with no removal and no insertion.
IsEmptyDiff(d) == Len(d.removals) = 0 /\ Len(d.insertions) = 0

C3_OneNotificationAtBalanceZero ==
    /\ Len(posted) <= 1
    /\ _mutationBalance # 0 => posted = <<>>
    /\ posted # <<>> => session = "ended"

\* An outermost session with several nested mutations has ended and posted once.
C3_Witness ==
    /\ session = "ended" /\ nops >= 2
    /\ _mutationBalance = 0 /\ Len(posted) = 1

\* C4 as stated: when the contents at the end of an outermost session are equal,
\* element by element under the array's equality function, to those at its start,
\* nothing has been posted; and every posted diff has a removal or an insertion.
C4_NotificationOnlyIfChanged ==
    /\ (session = "ended" /\ SameUnder(_equal, before, _host)) => posted = <<>>
    /\ \A i \in 1 .. Len(posted) : ~IsEmptyDiff(posted[i])

\* C5: when the error of a body leaves the outermost operation, nothing has been
\* posted for that session and the tracking state is reset; and the step that
\* cancels a session on the way leaves the elements as the body left them.
C5_ThrowPostsNothing ==
    /\ [](session = "thrown" =>
            /\ posted = <<>>
            /\ _mutationBalance = 0 /\ _onlyChange = <<>> /\ _original = <<>>)
    /\ [][failing => _host' = _host]_vars

\* A session that threw after it had changed the elements: nothing posted, and the
\* elements are not those of the start.
C5_Witness ==
    /\ session = "thrown" /\ nops >= 1
    /\ posted = <<>> /\ _host # before

\* C15: between the calls into the core that the proxy makes, the nesting counter
\* is never negative, the pending single diff and the snapshot are never both
\* present, and when no session is open (counter 0) neither is present.
C15_CoreStateInvariant ==
    /\ _mutationBalance >= 0
    /\ ~(_onlyChange # <<>> /\ _original # <<>>)
    /\ _mutationBalance = 0 => (_onlyChange = <<>> /\ _original = <<>>)

\* Inside a session whose second change replaced the pending diff by a snapshot.
C15_Witness ==
    /\ _mutationBalance >= 1 /\ nops >= 2
    /\ _original # <<>> /\ _onlyChange = <<>>

\* C16: every beginMutation is matched by exactly one endMutation or
\* cancelMutation, on the normal and on the throwing path: the nesting counter
\* always equals the number of wrapped calls whose bodies are still running, so an
\* operation that has returned or thrown leaves the counter as it found it.
C16_BalanceRestored ==
    /\ _mutationBalance = Len(stack)
    /\ session \in {"ended", "thrown"} => _mutationBalance = 0

\* A mutation made by a running body has thrown: the error is on its way through
\* that body, and the counter is back at the depth of the body.
C16_Witness ==
    /\ failing /\ nops >= 1
    /\ Len(stack) = 1 /\ _mutationBalance = 1 /\ _original # <<>>

\* C17 as stated: a call of setAt, setLength or replaceIn on a core with no open
\* session that changes the elements throws, and whatever such a call does, it
\* leaves the pending diff and the snapshot null.
C17_ChangeOutsideSessionThrows ==
    session \in DirectCalls =>
        /\ ~SameUnder(_equal, before, _host) => failing
        /\ _onlyChange = <<>> /\ _original = <<>>

\* C18: an assignment, outside any session, of a value not equal to the current one
\* at an integer index inside the array posts one diff, which holds exactly the
\* removal of the old element at that index and the insertion of the new one at
\* the same index; the element is replaced, and the body of the assignment takes
\* no snapshot.
C18_IndexAssignmentPostsSingleChange ==
    (/\ session = "ended" /\ last.op = "set"
     /\ last.index < Len(before)
     /\ ~Equal(_equal, before[last.index + 1], last.items[1])) =>
        LET i      == last.index
            old    == before[i + 1]
            new    == last.items[1]
            inBody == setAt(beginMutation(NewCore(before)), _equal,
                            [kind |-> "index", index |-> i], new)
        IN  /\ Len(posted) = 1
            /\ posted[1].removals = <<[removedAt |-> i, element |-> old]>>
            /\ posted[1].insertions = <<[insertedAt |-> i, element |-> new]>>
            /\ _host = [before EXCEPT ![i + 1] = new]
            /\ inBody.original = <<>> /\ ~inBody.error

\* The second element of a two-element array has been assigned a different value.
C18_Witness ==
    /\ session = "ended" /\ last.op = "set" /\ last.index = 1
    /\ Len(before) = 2 /\ before[2] # last.items[1]
    /\ Len(posted) = 1 /\ _host[2] = last.items[1]

\* The integer part of the number h / 2: the integer nearest to it between it and 0.
IntegerPart(h) ==
    LET m == IF h < 0 THEN -h ELSE h
    IN  CHOOSE i \in -m .. m :
            \/ h >= 0 /\ 2 * i <= h /\ h < 2 * i + 2
            \/ h < 0 /\ h <= 2 * i /\ 2 * i - 2 < h

\* The start of a splice as Array.prototype.splice resolves it on a length L: 0
\* when absent, its integer part otherwise, counted from the end when that is
\* negative, and clamped to 0 .. L.
StartOf(call, L) ==
    LET i == IntegerPart(call.index)
    IN  IF call.argc = 0 THEN 0
        ELSE IF i < 0 THEN Max(0, L + i) ELSE Min(i, L)

\* The number of elements the splice removes from position s.
CountOf(call, L, s) ==
    IF call.argc = 0 THEN 0
    ELSE IF call.argc = 1 THEN L - s
    ELSE Min(Max(IntegerPart(call.count), 0), L - s)

\* The diff d with every index increased by s.
Shifted(d, s) ==
    [removals   |-> [i \in 1 .. Len(d.removals) |->
                        [d.removals[i] EXCEPT !.removedAt = @ + s]],
     insertions |-> [i \in 1 .. Len(d.insertions) |->
                        [d.insertions[i] EXCEPT !.insertedAt = @ + s]]]

OnlyRemoval(index, element) ==
    [removals |-> <<[removedAt |-> index, element |-> element]>>, insertions |-> <<>>]

OnlyInsertions(index, items) ==
    [removals   |-> <<>>,
     insertions |-> [j \in 1 .. Len(items) |->
                        [insertedAt |-> index + j - 1, element |-> items[j]]]]

\* C19: a splice outside any session that removes or inserts something posts one
\* diff, the diff of the removed elements against the items under the array's
\* equality function with every index increased by the resolved start (and a
\* splice that removes nothing and inserts nothing posts none). So push posts
\* only insertions, at L .. L + k - 1 in order; unshift only insertions at
\* 0 .. k - 1; pop the removal of the last element at L - 1; shift the removal of
\* the first at 0. And splice(1, 1, 4, 5) on [1, 2, 3] leaves [1, 4, 5, 3] and
\* posts the removal of 2 at 1 with the insertions of 4 at 1 and 5 at 2.
C19_SplicePostsShiftedDiff ==
    LET L == Len(before) IN
    /\ (session = "ended" /\ last.op = "splice") =>
            LET s       == StartOf(last, L)
                n       == CountOf(last, L, s)
                removed == SubSeq(before, s + 1, s + n)
            IN  /\ _host = SubSeq(before, 1, s) \o last.items \o SubSeq(before, s + n + 1, L)
                /\ posted = IF removed = <<>> /\ last.items = <<>> THEN <<>>
                            ELSE <<Shifted(arrayDiff(removed, last.items, _equal, 0), s)>>
    /\ (session = "ended" /\ last.op = "push" /\ last.items # <<>>) =>
            posted = <<OnlyInsertions(L, last.items)>>
    /\ (session = "ended" /\ last.op = "unshift" /\ last.items # <<>>) =>
            posted = <<OnlyInsertions(0, last.items)>>
    /\ (session = "ended" /\ last.op = "pop" /\ L > 0) =>
            posted = <<OnlyRemoval(L - 1, before[L])>>
    /\ (session = "ended" /\ last.op = "shift" /\ L > 0) =>
            posted = <<OnlyRemoval(0, before[1])>>
    /\ LET c == ProxyReplaceIn(NewCore(<<1, 2, 3>>), "identity", 3, Whole(1), Whole(1), <<4, 5>>)
       IN  /\ c.host = <<1, 4, 5, 3>>
           /\ c.posted = <<[removals   |-> <<[removedAt |-> 1, element |-> 2]>>,
                            insertions |-> <<[insertedAt |-> 1, element |-> 4],
                                             [insertedAt |-> 2, element |-> 5]>>]>>

\* splice(1, 1, item) on a two-element array has replaced the second element by a
\* different one: one removal and one insertion, both at index 1.
C19_Witness ==
    /\ session = "ended" /\ last.op = "splice"
    /\ last.argc = 3 /\ last.index = Whole(1) /\ last.count = Whole(1)
    /\ Len(before) = 2 /\ Len(posted) = 1
    /\ Len(posted[1].removals) = 1 /\ posted[1].removals[1].removedAt = 1
    /\ Len(posted[1].insertions) = 1 /\ posted[1].insertions[1].insertedAt = 1

\* C20: assigning, outside any session, a smaller length L2 to an array of length
\* L posts one diff with no insertions whose removed indices are exactly
\* L2 .. L - 1, whatever the elements are; a larger length posts one diff with no
\* removals whose insertions are exactly at L .. L2 - 1, each of the element
\* undefined; so length 0 posts L removals.
C20_LengthAssignmentPostsTail ==
    (session = "ended" /\ last.op = "length" /\ last.index # Len(before)) =>
        LET L  == Len(before)
            L2 == last.index
        IN  /\ Len(posted) = 1
            /\ _host = [i \in 1 .. L2 |-> IF i <= L THEN before[i] ELSE Undefined]
            /\ L2 < L =>
                /\ posted[1].insertions = <<>>
                /\ [j \in 1 .. Len(posted[1].removals) |-> posted[1].removals[j].removedAt]
                        = [j \in 1 .. L - L2 |-> L2 + j - 1]
                /\ removedIndices(posted[1]) = [bounds |-> <<L2, L>>, count |-> L - L2]
            /\ L2 > L =>
                /\ posted[1].removals = <<>>
                /\ posted[1].insertions =
                        [j \in 1 .. L2 - L |-> [insertedAt |-> L + j - 1, element |-> Undefined]]
            /\ L2 = 0 => Len(posted[1].removals) = L

\* A two-element array of equal elements has been cut to one element.
C20_Witness ==
    /\ session = "ended" /\ last.op = "length" /\ last.index = 1
    /\ Len(before) = 2 /\ before[1] = before[2]
    /\ Len(posted) = 1 /\ Len(posted[1].removals) = 1

\* The call removes no element and inserts none on the array `a` under `eq`: pop or
\* shift on an empty array, a splice removing and inserting nothing, push or
\* unshift without items, the length assigned its current value, an element
\* assigned a value equal to the current one.
RemovesAndInsertsNothing(call, a, eq) ==
    \/ call.op \in {"pop", "shift"} /\ Len(a) = 0
    \/ call.op = "splice" /\ call.items = <<>>
            /\ CountOf(call, Len(a), StartOf(call, Len(a))) = 0
    \/ call.op \in {"push", "unshift"} /\ call.items = <<>>
    \/ call.op = "length" /\ call.index = Len(a)
    \/ call.op = "set" /\ call.index < Len(a) /\ Equal(eq, a[call.index + 1], call.items[1])

\* C21: an operation outside any session that removes no element and inserts none
\* posts nothing and leaves the core idle: no session open, no pending diff, no
\* snapshot.
C21_NoChangePostsNothing ==
    (session = "ended" /\ RemovesAndInsertsNothing(last, before, _equal)) =>
        /\ posted = <<>>
        /\ _mutationBalance = 0 /\ _onlyChange = <<>> /\ _original = <<>>

\* pop() on an empty array has returned.
C21_Witness ==
    /\ session = "ended" /\ last.op = "pop" /\ before = <<>>
    /\ _host = <<>> /\ posted = <<>>

\* The same call on a plain array `a`: the array it leaves and the value it returns.
PlainCall(call, a) ==
    LET L == Len(a)
        s == StartOf(call, L)
        n == CountOf(call, L, s)
    IN  IF call.op = "push"
        THEN [array |-> a \o call.items, returned |-> ReturnNumber(L + Len(call.items))]
        ELSE IF call.op = "unshift"
        THEN [array |-> call.items \o a, returned |-> ReturnNumber(L + Len(call.items))]
        ELSE IF call.op = "pop"
        THEN IF L = 0 THEN [array |-> a, returned |-> ReturnElement(Undefined)]
             ELSE [array |-> SubSeq(a, 1, L - 1), returned |-> ReturnElement(a[L])]
        ELSE IF call.op = "shift"
        THEN IF L = 0 THEN [array |-> a, returned |-> ReturnElement(Undefined)]
             ELSE [array |-> Tail(a), returned |-> ReturnElement(a[1])]
        ELSE [array    |-> SubSeq(a, 1, s) \o call.items \o SubSeq(a, s + n + 1, L),
              returned |-> ReturnArray(SubSeq(a, s + 1, s + n))]

\* C22: splice, push, pop, shift and unshift on a reactive array, with whatever
\* arguments (none, a start only, a negative start, a start past the length,
\* fractional start and count), return what the same call returns on a plain array
\* of the same elements and leave the same contents.
C22_OverridesAsPlainArray ==
    (session = "ended" /\ last.op \in {"splice", "push", "pop", "shift", "unshift"}) =>
        /\ _host = PlainCall(last, before).array
        /\ returned = PlainCall(last, before).returned

\* splice(0.5, 1.5) on a two-element array has removed and returned its first
\* element.
C22_Witness ==
    /\ session = "ended" /\ last.op = "splice"
    /\ last.argc = 2 /\ last.index = 1 /\ last.count = 3
    /\ Len(before) = 2 /\ returned = ReturnArray(<<before[1]>>) /\ _host = <<before[2]>>

\* C23: in the diff arrayDiff(from, to, equal) returns with no offset, the removal
\* indices are strictly ascending (so pairwise distinct), lie in 0 .. |from| - 1 and
\* each removal holds the element of `from` at its index; the insertion indices are
\* strictly ascending, lie in 0 .. |to| - 1 and each insertion holds the element of
\* `to` at its index.
C23_DiffIndicesAscendingAndValid ==
    Diffed =>
        /\ \A i \in 1 .. Len(diff.removals) :
                LET r == diff.removals[i]
                IN  /\ 0 <= r.removedAt /\ r.removedAt < Len(from)
                    /\ r.element = from[r.removedAt + 1]
                    /\ i > 1 => diff.removals[i - 1].removedAt < r.removedAt
        /\ \A i \in 1 .. Len(diff.insertions) :
                LET n == diff.insertions[i]
                IN  /\ 0 <= n.insertedAt /\ n.insertedAt < Len(to)
                    /\ n.element = to[n.insertedAt + 1]
                    /\ i > 1 => diff.insertions[i - 1].insertedAt < n.insertedAt

\* A diff with several removals and several insertions under a predicate that is
\* not identity.
C23_Witness ==
    /\ dstep = "diffed" /\ equal # "identity"
    /\ Len(diff.removals) >= 2 /\ Len(diff.insertions) >= 2

\* The array that has the inserted elements at the insertion indices of d and, at
\* the other indices, the elements of `a` that d does not remove, in their order.
RECURSIVE Rebuilt(_, _, _, _, _)
Rebuilt(a, d, i, j, n) ==
    LET removed  == {d.removals[k].removedAt : k \in 1 .. Len(d.removals)}
        inserted == {k \in 1 .. Len(d.insertions) : d.insertions[k].insertedAt = n}
    IN  IF inserted # {}
        THEN <<d.insertions[CHOOSE k \in inserted : TRUE].element>>
                 \o Rebuilt(a, d, i, j + 1, n + 1)
        ELSE IF i > Len(a) THEN <<>>
        ELSE IF (i - 1) \in removed THEN Rebuilt(a, d, i + 1, j, n)
        ELSE <<a[i]>> \o Rebuilt(a, d, i + 1, j, n + 1)

\* C24: for a diff d that is valid for x (ascending removals at indices of x that
\* hold the elements of x there, ascending insertions at indices of the result),
\* d.apply(x) is x without the removed positions and with the inserted elements at
\* their indices, every recorded index meaning what it meant when recorded;
\* d.apply leaves x as it was; and d.inverse.apply(d.apply(x)) is x.
C24_ApplyThenInverseRestores ==
    /\ [](dstep \in {"builtApplied", "builtInverted"} =>
            /\ applied = Rebuilt(from, diff, 1, 1, 0)
            /\ Len(applied) = Len(from) - Len(diff.removals) + Len(diff.insertions)
            /\ \A k \in 1 .. Len(diff.insertions) :
                    applied[diff.insertions[k].insertedAt + 1] = diff.insertions[k].element)
    /\ [](dstep = "builtInverted" => unapplied = from)
    /\ [][from' = from]_vars

\* A built diff that removes two separate elements of a three-element array and
\* inserts two separate elements has been applied and undone.
C24_Witness ==
    /\ dstep = "builtInverted" /\ Len(from) = 3
    /\ IndicesOf(diff.removals, "removedAt") = <<0, 2>>
    /\ IndicesOf(diff.insertions, "insertedAt") = <<0, 2>>
    /\ unapplied = from /\ applied # from

\* The offsets, prefixes and suffixes a sub-array is diffed within.
Offsets == 0 .. 2
Prefixes(k) == {[i \in 1 .. k |-> (i + o) % 3] : o \in {0, 1}}
Suffixes == {<<>>, <<2, 0>>}

\* C25 as stated, for the predicates that are equivalence relations: the diff with
\* offset k is the diff with offset 0 with k added to every index, and applied to
\* P . from . S with P of length k it gives P . to . S.
C25_OffsetDiffInPlace ==
    (dstep = "diffed" /\ equal \in {"identity", "parity"}) =>
        \A k \in Offsets :
            LET d == arrayDiff(from, to, equal, k)
            IN  /\ d = Shifted(diff, k)
                /\ \A P \in Prefixes(k), S \in Suffixes :
                        apply(d, P \o from \o S) = P \o to \o S

\* C25 as amended: the diff with offset k is the diff with offset 0 with k added to
\* every index; applied to P . from . S with P of length k it gives an array of the
\* length of P . to . S that starts with P, ends with S and in between is equal to
\* `to` index by index under the predicate; and it is P . to . S itself when the
\* predicate is identity.
C25_OffsetDiffInPlaceUnderEqual ==
    dstep = "diffed" =>
        \A k \in Offsets :
            LET d == arrayDiff(from, to, equal, k)
            IN  /\ d = Shifted(diff, k)
                /\ \A P \in Prefixes(k), S \in Suffixes :
                        LET r == apply(d, P \o from \o S)
                        IN  /\ Len(r) = k + Len(to) + Len(S)
                            /\ SubSeq(r, 1, k) = P
                            /\ SubSeq(r, k + Len(to) + 1, Len(r)) = S
                            /\ SameUnder(equal, SubSeq(r, k + 1, k + Len(to)), to)
                            /\ equal = "identity" => r = P \o to \o S

\* A diff with a removal and an insertion whose offset form moves both by 2.
C25_Witness ==
    /\ dstep = "diffed"
    /\ Len(diff.removals) >= 1 /\ Len(diff.insertions) >= 1
    /\ LET d == arrayDiff(from, to, equal, 2)
       IN  /\ d.removals[1].removedAt = diff.removals[1].removedAt + 2
           /\ d.insertions[1].insertedAt = diff.insertions[1].insertedAt + 2
           /\ apply(d, <<1, 2>> \o from) = <<1, 2>> \o to

\* C26: when `from` and `to` are equal index by index under the predicate the diff
\* has no removal and no insertion; when `to` is empty the diff is the removal of
\* every element of `from`, at 0 .. |from| - 1, and no insertion; when `from` is
\* empty it is the insertion of every element of `to`, at 0 .. |to| - 1, and no
\* removal.
C26_DiffEdgeCases ==
    Diffed =>
        /\ SameUnder(equal, from, to) => diff = ArrayDiff(<<>>, <<>>)
        /\ to = <<>> =>
                diff = ArrayDiff([i \in 1 .. Len(from) |->
                                     [removedAt |-> i - 1, element |-> from[i]]], <<>>)
        /\ from = <<>> =>
                diff = ArrayDiff(<<>>, [i \in 1 .. Len(to) |->
                                           [insertedAt |-> i - 1, element |-> to[i]]])

\* The diff of a three-element array against the empty array.
C26_Witness ==
    /\ dstep = "diffed" /\ Len(from) = 3 /\ to = <<>>
    /\ Len(diff.removals) = 3 /\ diff.insertions = <<>>

\* The changes made one at a time, in the order given, on the array `a`: a removal
\* deletes the element at removedAt, an insertion puts its element at insertedAt.
RECURSIVE Replay(_, _)
Replay(changes, a) ==
    IF changes = <<>> THEN a
    ELSE LET c == Head(changes)
         IN  IF "removedAt" \in DOMAIN c
             THEN Replay(Tail(changes),
                         SubSeq(a, 1, c.removedAt) \o SubSeq(a, c.removedAt + 2, Len(a)))
             ELSE Replay(Tail(changes),
                         SubSeq(a, 1, c.insertedAt) \o <<c.element>>
                             \o SubSeq(a, c.insertedAt + 1, Len(a)))

\* C27: iterating a diff yields every removal, by descending index, and then every
\* insertion, by ascending index, each once; and the changes made one at a time in
\* that order on a copy of the source give the destination: the array the diff
\* describes for a diff built by the constructor, what apply gives for a diff of
\* arrayDiff, which is `to` itself under identity.
C27_IterationOrderReplays ==
    dstep \in {"diffed", "built"} =>
        LET it == iterator(diff)
            nr == Len(diff.removals)
            ni == Len(diff.insertions)
        IN  /\ Len(it) = nr + ni
            /\ \A i \in 1 .. nr :
                    /\ it[i] = diff.removals[nr - i + 1]
                    /\ i > 1 => it[i - 1].removedAt > it[i].removedAt
            /\ \A i \in 1 .. ni :
                    /\ it[nr + i] = diff.insertions[i]
                    /\ i > 1 => it[nr + i - 1].insertedAt < it[nr + i].insertedAt
            /\ dstep = "built" => Replay(it, from) = Rebuilt(from, diff, 1, 1, 0)
            /\ dstep = "diffed" =>
                    /\ Replay(it, from) = apply(diff, from)
                    /\ equal = "identity" => Replay(it, from) = to

\* The diff of the test "Array Diff", whose iteration starts with the removal at 4
\* and ends with the insertion at 4.
C27_Witness ==
    /\ dstep = "diffed" /\ from = <<0, 1, 2, 3, 4>> /\ to = <<2, 3, 5, 7, 9>>
    /\ iterator(diff)[1] = [removedAt |-> 4, element |-> 4]
    /\ iterator(diff)[6] = [insertedAt |-> 4, element |-> 9]

\* C28: the inverse of a diff has one insertion for each removal of the diff, in the
\* same order, at the removal's index and with its element, and one removal for each
\* insertion likewise; the inverse of the inverse has the removals and insertions of
\* the diff itself.
C28_InverseSwapsChanges ==
    dstep \in {"diffed", "built"} =>
        LET inv == inverse(diff)
        IN  /\ Len(inv.insertions) = Len(diff.removals)
            /\ \A i \in 1 .. Len(diff.removals) :
                    /\ DOMAIN inv.insertions[i] = {"insertedAt", "element"}
                    /\ inv.insertions[i].insertedAt = diff.removals[i].removedAt
                    /\ inv.insertions[i].element = diff.removals[i].element
            /\ Len(inv.removals) = Len(diff.insertions)
            /\ \A i \in 1 .. Len(diff.insertions) :
                    /\ DOMAIN inv.removals[i] = {"removedAt", "element"}
                    /\ inv.removals[i].removedAt = diff.insertions[i].insertedAt
                    /\ inv.removals[i].element = diff.insertions[i].element
            /\ inverse(inv).removals = diff.removals
            /\ inverse(inv).insertions = diff.insertions

\* A diff with removals and insertions at different indices, two of each.
C28_Witness ==
    /\ dstep \in {"diffed", "built"}
    /\ Len(diff.removals) = 2 /\ Len(diff.insertions) = 2
    /\ diff.removals[1].removedAt # diff.insertions[1].insertedAt
    /\ inverse(diff).removals[2].removedAt = diff.insertions[2].insertedAt

----------------------------------------------------------------------------
(* RangeSet claims: degenerate ranges and copies. *)

\* The degenerate arguments: start >= end, start = end and reversed ranges alike.
Degenerate == {a \in (-1 .. MaxIndex + 1) \X (-1 .. MaxIndex + 1) : a[1] >= a[2]}

\* C29: for start >= end, each of insert, remove, toggle, insertGapIn, insertSpanIn
\* and removeSpanIn returns with the bounds and the count of the set x as they were
\* (the model's operators have no other outcome than a value: a call that could not
\* return would fail the evaluation), contains is false, and the constructor gives
\* the empty set.
C29_DegenerateRangeIsNoOp ==
    rop \notin Combinators =>
        \A a \in Degenerate :
            /\ insert(x, a[1], a[2]) = x
            /\ remove(x, a[1], a[2]) = x
            /\ toggle(x, a[1], a[2]) = x
            /\ insertGapIn(x, a[1], a[2]) = x
            /\ insertSpanIn(x, a[1], a[2]) = x
            /\ removeSpanIn(x, a[1], a[2]) = x
            /\ ~contains(x, a[1], a[2])
            /\ NewRangeSet(a[1], a[2]) = EmptyRangeSet

\* A set of two ranges after a toggle, on which a reversed range that spans the gap
\* and an empty range at a member are both no-ops.
C29_Witness ==
    /\ rop = "toggle"
    /\ Len(x.bounds) = 4 /\ x.count >= 3
    /\ toggle(x, x.bounds[3], x.bounds[2]) = x
    /\ contains(x, x.bounds[1], x.bounds[1] + 1)
    /\ ~contains(x, x.bounds[1], x.bounds[1])
    /\ removeSpanIn(x, x.bounds[4], x.bounds[1]) = x

\* C30: a mutating call on one of two RangeSet objects leaves the bounds and the
\* count of the other as they were, whichever copies were made before; assignFrom
\* and makeCopy leave the object copied as it was and give the other its bounds and
\* count; and a combinator leaves both of its operands as they were.
C30_CopiesShareNoState ==
    [][/\ rop'.op \in Mutators /\ rop'.on = "x" => y' = y
       /\ rop'.op \in Mutators /\ rop'.on = "y" => x' = x
       /\ rop'.op = "assignFrom" /\ rop'.on = "x" => y' = y /\ x' = y
       /\ rop'.op = "assignFrom" /\ rop'.on = "y" => x' = x /\ y' = x
       /\ rop'.op = "makeCopy" /\ rop'.on = "x" => x' = x /\ y' = x
       /\ rop'.op = "makeCopy" /\ rop'.on = "y" => y' = y /\ x' = y
       /\ rop'.op \in Combinators => x' = x /\ y' = y]_vars

\* After a copy was made, a toggle on y has left the two objects different, x with
\* two ranges.
C30_Witness ==
    /\ rop.op = "toggle" /\ rop.on = "y" /\ rop.copied
    /\ Len(x.bounds) = 4 /\ x.count = 2
    /\ y.count = 1
    /\ at.x # at.y

\* C31: whatever calls built the set x, x.isEqual(other) holds exactly when the two
\* sequences of bounds are identical, and exactly when x and `other` have the same
\* members; and x is equal to the set that has its members inserted one by one in
\* ascending order.
C31_EqualityIsCanonical ==
    rop \notin Combinators =>
        /\ \A other \in Others :
                /\ isEqual(x, other) <=> x.bounds = other.bounds
                /\ isEqual(x, other) <=> xs = MembersOf(other)
                /\ isEqual(other, x) <=> isEqual(x, other)
        /\ isEqual(x, RangeSetOf(xs))
        /\ isEqual(x, makeCopy(x))

\* A set of two ranges left by removeSpanIn that equals a set built by inserts.
C31_Witness ==
    /\ rop = "removeSpanIn"
    /\ Len(x.bounds) = 4 /\ x.count >= 3
    /\ \E other \in Others : isEqual(x, other) /\ MembersOf(other) = xs
    /\ \E other \in Others : ~isEqual(x, other) /\ other.count = x.count

----------------------------------------------------------------------------
(* AsyncBarrier claims. *)

\* Work i is executing: _executeWork has called its body and has not yet gone
\* through its finally block.
Executing(i) == works[i].state \in {"executing", "settled"}

\* C32: while a work submitted through exclusive() is executing no other work of
\* the barrier is; works that execute together are all concurrent; and
\* _currentWorks is -1 for the exclusive work and else the number of works
\* executing.
C32_ExclusiveWorksAlone ==
    LET running == {i \in 1 .. Len(works) : Executing(i)}
    IN  /\ \A i \in running : ~works[i].concurrent => running = {i}
        /\ \A i, j \in running : i # j => works[i].concurrent /\ works[j].concurrent
        /\ _currentWorks = IF \E i \in running : ~works[i].concurrent THEN -1
                           ELSE Cardinality(running)

\* An exclusive work taken from the pool executes after two concurrent works that
\* were executed at once, and so ran together, have finished.
C32_Witness ==
    /\ Len(works) = 3
    /\ works[1].concurrent /\ works[2].concurrent /\ ~works[2].pooled
    /\ works[1].state = "finished" /\ works[2].state = "finished"
    /\ started = <<1, 2, 3>>
    /\ ~works[3].concurrent /\ works[3].pooled /\ works[3].state = "executing"
    /\ _currentWorks = -1

\* C33: the bodies are called in the order the works were submitted: the k-th work
\* started is the k-th work submitted, so whenever a work has started every work
\* submitted before it has.
C33_FirstComeFirstServed ==
    /\ \A k \in 1 .. Len(started) : started[k] = k
    /\ \A i \in 1 .. Len(works) :
           works[i].state # "queued" => \A j \in 1 .. i - 1 : works[j].state # "queued"
    /\ \A k \in 1 .. Len(_workPool) : _workPool[k] = Len(started) + k

\* A concurrent work submitted after a work finished and before the pool was
\* dispatched has started, after the exclusive work that waited before it.
C33_Witness ==
    /\ Len(works) >= 3
    /\ ~works[2].concurrent /\ works[2].pooled
    /\ works[3].concurrent /\ works[3].inGap
    /\ works[3].state = "executing"
    /\ started = <<1, 2, 3>>

\* C40: every work submitted starts and its promise settles as the promise of its
\* body did; and whenever the pool is not empty and no work is executing, a
\* nextTick callback that dispatches the pool is scheduled or running.
C40_BarrierIsLive ==
    /\ \A i \in 1 .. MaxWorks :
           (Len(works) >= i) ~>
               (/\ Len(works) >= i
                /\ works[i].state = "finished"
                /\ works[i].promise \in {"fulfilled", "rejected"}
                /\ works[i].promise = works[i].outcome)
    /\ [](Len(_workPool) # 0 /\ _currentWorks = 0 => ticks > 0 \/ loop # <<>>)

\* The last of three works, an exclusive one that waited in the pool behind
\* another, has finished with its promise rejected.
C40_Witness ==
    /\ Len(works) = 3
    /\ works[2].pooled
    /\ ~works[3].concurrent /\ works[3].pooled
    /\ works[3].state = "finished" /\ works[3].promise = "rejected"
    /\ \A i \in 1 .. 2 : works[i].state = "finished"

----------------------------------------------------------------------------
(* RefCounted claims. *)

\* C34: a new object has count 1; the count is never negative and, while it is not
\* 0, is 1 plus the retains less the releases made; a retain that returns adds 1 and
\* a release that does not throw subtracts 1; the finalizer has run once if the
\* count is 0 and else not at all, so it runs in the release that brings the count
\* to 0; after that release the value is cleared; and when the count is 0 every
\* retain, release and value access throws and changes nothing.
C34_RefCountedLifecycle ==
    /\ [](/\ rcall.op = "new" => ref.count = 1
          /\ ref.count >= 0
          /\ ref.count # 0 => ref.count = 1 + retains - releases
          /\ finalized = (IF ref.count = 0 THEN 1 ELSE 0)
          /\ ref.releasing => ref.count = 0
          /\ ref.count = 0 /\ ~ref.releasing => ref.value = <<>>
          /\ ref.count # 0 => ref.value # <<>>)
    /\ [][/\ retains' = retains + 1 => ref'.count = ref.count + 1
          /\ releases' = releases + 1 => ref'.count = ref.count - 1
          /\ finalized' # finalized =>
                 /\ finalized' = finalized + 1
                 /\ releases' = releases + 1 /\ ref.count = 1 /\ ref'.count = 0
          /\ ref.count = 0 /\ rcall'.op \in {"retain", "release", "value"} =>
                 /\ rcall'.threw \/ (ref.releasing /\ ~ref'.releasing)
                 /\ ref'.count = 0 /\ finalized' = finalized
                 /\ retains' = retains /\ releases' = releases]_vars

\* The object of the test "Ref count": retained once, released twice, and then a
\* third release has thrown.
C34_Witness ==
    /\ retains = 1 /\ releases = 2
    /\ finalized = 1
    /\ ref = [value |-> <<>>, count |-> 0, releasing |-> FALSE]
    /\ rcall = [op |-> "release", threw |-> TRUE]

----------------------------------------------------------------------------
(* Claims on the tracking state inside a session. *)

Idle == _mutationBalance = 0 /\ _onlyChange = <<>> /\ _original = <<>>

C37_CancelDiscardsOnlyAtZero ==
    /\ [](session.now = "thrown" => (Idle /\ posted = <<>>))
    /\ [][(session.now = "thrown" /\ session'.now # "thrown") =>
            (before' = _host /\ session'.afterCancelled)]_vars
    /\ [][(failing /\ Len(stack') < Len(stack) /\ stack' # <<>>) =>
            /\ _mutationBalance' = _mutationBalance - 1
            /\ _onlyChange' = _onlyChange /\ _original' = _original
            /\ _host' = _host /\ before' = before]_vars
    /\ []((session.now = "ended" /\ (session.innerCancelled \/ session.afterCancelled)) =>
            IF posted = <<>> THEN SameUnder(_equal, before, _host)
            ELSE /\ SameUnder(_equal, apply(posted[1], before), _host)
                 /\ _equal = "identity" => apply(posted[1], before) = _host)

\* A session that followed a cancelled one, in which the error of a nested
\* operation was caught after that operation had been cancelled, has ended and
\* posted a diff that covers the changes made before and after the error.
C37_Witness ==
    /\ session.now = "ended" /\ session.innerCancelled /\ session.afterCancelled
    /\ _equal = "identity" /\ nops >= 2
    /\ Len(posted) = 1 /\ Len(posted[1].removals) + Len(posted[1].insertions) >= 2
    /\ _host # before /\ apply(posted[1], before) = _host

----------------------------------------------------------------------------
(* Claims on the passes of the Myers engine. *)

\* The passes of the backtracking loop of _formChanges, from depth d at (px, py)
\* down to depth 1, each with the point it began at.
RECURSIVE FormSteps(_, _, _, _, _, _)
FormSteps(a, b, trace, d, px, py) ==
    IF d > 0
    THEN LET step == FormStep(a, b, trace, d, px, py)
         IN  <<[d |-> d, px |-> px, py |-> py, step |-> step]>>
                \o FormSteps(a, b, trace, d - 1, step.prev_x, step.prev_y)
    ELSE <<>>

\* The diagonals the forward pass visits at depth d: -d, -d + 2, ..., d.
Diagonals(d) == {k \in -d .. d : (k + d) % 2 = 0}

\* C38: the forward pass enters a diagonal k strictly inside -d .. d from k - 1
\* (x incremented) when V[k-1] >= V[k+1] and from k + 1 (x kept) otherwise; each
\* of the D = trace.length - 1 passes of backtracking chooses its predecessor by
\* the same comparison, walks back over equal pairs only, to the point where the
\* forward pass entered the diagonal, where exactly one of (x = prev_x and
\* y = prev_y + 1) and (y = prev_y and x = prev_x + 1) holds, and pushes one
\* insertion at prev_y, an index of b, or one removal at prev_x, an index of a.
C38_TieBreakConsistent ==
    dstep = "diffed" =>
        LET trace == _descent(from, to, equal)
            D     == Len(trace) - 1
            steps == FormSteps(from, to, trace, D, Len(from), Len(to))
        IN  /\ \A d \in 1 .. D : \A k \in Diagonals(d) \ {-d, d} :
                    LET km == VAt(trace[d + 1], k - 1)
                        kp == VAt(trace[d + 1], k + 1)
                    IN  DescentStart(trace[d + 1], d, k) = IF km >= kp THEN km + 1 ELSE kp
            /\ Len(steps) = D
            /\ _formChanges(from, to, trace) = [i \in 1 .. D |-> steps[i].step.change]
            /\ \A i \in 1 .. D :
                    LET d == steps[i].d
                        s == steps[i].step
                        v == trace[d + 1]
                    IN  /\ s.k \in Diagonals(d)
                        /\ s.k \notin {-d, d} =>
                                s.prev_k = IF VAt(v, s.k - 1) >= VAt(v, s.k + 1)
                                           THEN s.k - 1 ELSE s.k + 1
                        /\ s.x = DescentStart(v, d, s.k) /\ s.y = s.x - s.k
                        /\ \A j \in 1 .. steps[i].px - s.x :
                                Equal(equal, from[s.x + j], to[s.y + j])
                        /\ (s.x = s.prev_x /\ s.y = s.prev_y + 1)
                                # (s.y = s.prev_y /\ s.x = s.prev_x + 1)
                        /\ IF s.x = s.prev_x
                           THEN /\ s.prev_y \in 0 .. Len(to) - 1
                                /\ s.change = [insertedAt |-> s.prev_y,
                                               element |-> to[s.prev_y + 1]]
                           ELSE /\ s.prev_x \in 0 .. Len(from) - 1
                                /\ s.change = [removedAt |-> s.prev_x,
                                               element |-> from[s.prev_x + 1]]

\* A diff whose backtracking passes, at depth 2, through a diagonal whose two
\* neighbours had come equally far: [0, 2] -> [1, 0], where diagonal 0 is entered
\* from diagonal -1.
C38_Witness ==
    /\ dstep = "diffed" /\ equal = "identity"
    /\ from = <<0, 2>> /\ to = <<1, 0>>
    /\ LET trace == _descent(from, to, equal)
           s     == FormStep(from, to, trace, 2, 2, 2)
       IN  /\ Len(trace) = 3
           /\ s.k = 0 /\ VAt(trace[3], -1) = VAt(trace[3], 1)
           /\ s.prev_k = -1 /\ s.x = s.prev_x + 1 /\ s.y = s.prev_y
    /\ Len(diff.removals) = 1 /\ Len(diff.insertions) = 1

\* C39: arrayDiff comes to an end on any two arrays and any predicate: the trace of
\* the forward pass has D + 1 entries for a depth D <= |A| + |B|, the zero-filled
\* V and then the V of each depth below D; D is the first depth at which a diagonal
\* has reached x >= |A| and y >= |B|; and backtracking makes D passes, one change
\* each.
C39_DiffTerminates ==
    dstep = "diffed" =>
        LET trace == _descent(from, to, equal)
            D     == Len(trace) - 1
            pass  == [d \in 0 .. D |->
                        DescentK(from, to, equal, d, -d, trace[d + 1], NewV(d))]
        IN  /\ D \in 0 .. Len(from) + Len(to)
            /\ trace[1] = NewV(1)
            /\ \A d \in 0 .. D - 1 : ~pass[d].reached /\ trace[d + 2] = pass[d].v
            /\ pass[D].reached
            /\ \E k \in Diagonals(D) :
                    /\ VAt(pass[D].v, k) >= Len(from)
                    /\ VAt(pass[D].v, k) - k >= Len(to)
            /\ Len(FormSteps(from, to, trace, D, Len(from), Len(to))) = D
            /\ Len(_formChanges(from, to, trace)) = D
            /\ Len(diff.removals) + Len(diff.insertions) = D

\* Two arrays of MaxLen elements with no element in common: the forward pass runs
\* to the last depth, |A| + |B|, and backtracking makes as many passes.
C39_Witness ==
    /\ dstep = "diffed" /\ equal = "identity"
    /\ Len(from) = MaxLen /\ Len(to) = MaxLen
    /\ Len(_descent(from, to, equal)) = 2 * MaxLen + 1
    /\ Len(diff.removals) = MaxLen /\ Len(diff.insertions) = MaxLen

=============================================================================
